---- MODULE Spec2Model ----
(***************************************************************************)
(* Model of the ReticulumHF beacon subsystem (src/beacon/scheduler.py):    *)
(* the BeaconPacket codec, the KISS framing, the PeerTable, the            *)
(* BeaconListener and the BeaconScheduler.                                 *)
(*                                                                         *)
(* Bytes are integers 0..255, byte strings are sequences of bytes, a       *)
(* Python str is a sequence of code points, Optional[T] is a sequence of   *)
(* length 0 (None) or 1.  A 32-bit unsigned value is a record of two       *)
(* 16-bit halves so that the whole range 0..2^32-1 is representable.       *)
(***************************************************************************)
EXTENDS Integers, Sequences, FiniteSets, TLC

VARIABLES
    c_pc,       \* codec harness: "new", "encoded", "decoded"
    c_in,       \* arguments given to BeaconPacket(...)
    c_pkt,      \* the constructed BeaconPacket
    c_wire,     \* the bytes handed to BeaconPacket.decode
    c_mut,      \* what was done to the encoded bytes before decoding
    c_out,      \* Optional[BeaconPacket] returned by decode
    k_pc,       \* framing harness: "new", "framed", "unescaped"
    k_payload,  \* data given to send_kiss_frame
    k_frame,    \* the frame send_kiss_frame builds
    k_out,      \* Optional[bytes] returned by _unescape_kiss
    k_stream,   \* stream harness: the bytes one connection delivers
    k_read,     \* how many of them recv() has returned so far
    k_frames,   \* the frames handed to _handle_frame so far
    now,        \* the wall clock, seconds since the epoch (time.time())
    tables,     \* the PeerTable objects: reference -> table
    l_peer_table, \* BeaconListener.peer_table: a reference
    l_conn,     \* listener connection: "off", "connected"
    l_buffer,   \* _process_frames: buffer
    l_in_frame, \* _process_frames: in_frame
    l_queue,    \* frames of the current chunk still to be handled
    l_upd,      \* PeerTable.update in progress: packet, rx_level, now
    l_hist,     \* outcome of every frame handled so far
    rx_notes,   \* beacon-received notifications raised so far
    api_out,    \* result of the last BeaconScheduler.get_peers()
    pt_clock,   \* registry harness: time.time()
    pt_table,   \* registry harness: the PeerTable its threads call
    pt_thr,     \* per thread: the PeerTable call it is inside, if any
    pt_done,    \* update calls that have returned
    pt_out,     \* the PeerTable call that has just returned, or None
    s_cfg,      \* BeaconScheduler.config
    s_env,      \* what the modem and the channel may do in this run
    s_clock,    \* scheduler harness: the wall clock, seconds since the epoch
    s_horizon,  \* the clock value at which the run ends
    s_running,  \* BeaconScheduler.running
    s_pc,       \* scheduler thread: "off", "wait", "tx_delay", "exited",
                \* "raised" (ended by an exception)
    s_wake,     \* the clock value at which the thread's sleep is over
    s_current_mode, \* BeaconScheduler.current_mode
    s_listener, \* the listener thread: "stopped", "started"
    m_mode,     \* the modem's FreeDV mode
    m_txwin,    \* the clock value up to which the modem's TX window is open
    s_log,      \* modem commands, frames and notifications of the last poll
    s_poll,     \* the last poll of the loop: its time and in_beacon_window
    s_win,      \* tally of the beacon window entered last
    s_ret,      \* the BeaconScheduler call that has just returned, or None
    s_stop,     \* stop() waiting in join: the clock value of its timeout
    s_calls,    \* calls of start, stop and force_beacon made so far
    s_old,      \* the scheduler thread of an earlier start() that is still
                \* alive next to the thread s_pc describes, or None
    s_force,    \* a force_beacon() call inside one of its sleeps: where it
                \* is, its original_mode, the time of the call, the modem's
                \* mode and self.running at the call; or None
    l_pc,       \* _listener_loop: "off", "connect", "read", "backoff",
                \* "exited"
    l_delay,    \* _listener_loop: reconnect_delay
    l_wake,     \* the clock value at which the loop's wait is over
    l_fails     \* waits of the loop since its last successful connect

codecVars == <<c_pc, c_in, c_pkt, c_wire, c_mut, c_out>>
kissVars == <<k_pc, k_payload, k_frame, k_out, k_stream, k_read, k_frames>>
regVars == <<tables, l_peer_table>>
lsnVars == <<l_conn, l_buffer, l_in_frame, l_queue, l_upd, l_hist, rx_notes,
             api_out>>
ptVars == <<pt_clock, pt_table, pt_thr, pt_done, pt_out>>
vars == <<c_pc, c_in, c_pkt, c_wire, c_mut, c_out,
          k_pc, k_payload, k_frame, k_out, k_stream, k_read, k_frames,
          now, tables, l_peer_table,
          l_conn, l_buffer, l_in_frame, l_queue, l_upd, l_hist, rx_notes,
          api_out,
          pt_clock, pt_table, pt_thr, pt_done, pt_out,
          s_cfg, s_env, s_clock, s_horizon, s_running, s_pc, s_wake,
          s_current_mode, s_listener, m_mode, m_txwin, s_log, s_poll, s_win,
          s_ret, s_stop, s_calls, s_old, s_force, l_pc, l_delay, l_wake,
          l_fails>>
schedVars == <<s_cfg, s_env, s_clock, s_horizon, s_running, s_pc, s_wake,
               s_current_mode, s_listener, m_mode, m_txwin, s_log, s_poll,
               s_win, s_ret, s_stop, s_calls, s_old, s_force>>
loopVars == <<l_pc, l_delay, l_wake, l_fails>>
nonCodecVars == <<kissVars, now, regVars, lsnVars, ptVars, schedVars,
                  loopVars>>
nonKissVars == <<codecVars, now, regVars, lsnVars, ptVars, schedVars,
                 loopVars>>
nonLsnVars == <<codecVars, kissVars, ptVars, schedVars, loopVars>>
nonPtVars == <<codecVars, kissVars, now, regVars, lsnVars, schedVars,
               loopVars>>
otherVars == <<codecVars, kissVars, now, regVars, lsnVars, ptVars>>
\* What the calls of the scheduler and the steps of its thread leave alone:
\* the other components and a thread of an earlier start().
nonSchedVars == <<otherVars, s_old, s_force>>

\* Bounds of the input sets.
MaxIdentityLen == 17
MaxMessageLen == 20
MaxPayloadLen == 3
MaxFrames == 3
MaxTicks == 2
MaxUpdates == 2
ShortSpan == 16
LongSpan == 66
MaxLate == 1
LoopSpan == 91
MaxCalls == 3
LifeSpan == 2
NotifySpan == 5
StatusSpan == 2
WindowSpan == 6
ForceSpan == 4

None == <<>>
Some(x) == <<x>>

(***************************************************************************)
(* Bit operations on non-negative integers.                                *)
(***************************************************************************)
RECURSIVE BitXorBits(_, _)
BitXorBits(a, b) ==
    IF a = 0 THEN b
    ELSE IF b = 0 THEN a
    ELSE ((a + b) % 2) + 2 * BitXorBits(a \div 2, b \div 2)

\* a ^ b for bytes, tabulated once
Xor8 == [a \in 0..255 |-> [b \in 0..255 |-> BitXorBits(a, b)]]

\* a ^ b, byte by byte
RECURSIVE BitXor(_, _)
BitXor(a, b) ==
    IF a < 256 /\ b < 256 THEN Xor8[a][b]
    ELSE Xor8[a % 256][b % 256] + 256 * BitXor(a \div 256, b \div 256)

RECURSIVE BitAnd(_, _)
BitAnd(a, b) ==
    IF a = 0 \/ b = 0 THEN 0
    ELSE ((a % 2) * (b % 2)) + 2 * BitAnd(a \div 2, b \div 2)

RECURSIVE BitOr(_, _)
BitOr(a, b) ==
    IF a = 0 THEN b
    ELSE IF b = 0 THEN a
    ELSE (IF a % 2 = 1 \/ b % 2 = 1 THEN 1 ELSE 0) + 2 * BitOr(a \div 2, b \div 2)

\* s[:n] of Python
Take(s, n) == SubSeq(s, 1, IF n < Len(s) THEN n ELSE Len(s))
\* s[a:b] of Python, 0-based, for 0 <= a
Slice(s, a, b) == SubSeq(s, a + 1, IF b < Len(s) THEN b ELSE Len(s))
\* bytes.ljust(n, b'\x00')
Ljust(s, n) == IF Len(s) >= n THEN s ELSE s \o [i \in 1..(n - Len(s)) |-> 0]

(***************************************************************************)
(* 32-bit unsigned values.                                                 *)
(***************************************************************************)
U32(hi, lo) == [hi |-> hi, lo |-> lo]
U32Zero == U32(0, 0)
\* struct.pack('>I', t)
PackU32(t) == <<t.hi \div 256, t.hi % 256, t.lo \div 256, t.lo % 256>>
\* struct.unpack('>I', b)[0]
UnpackU32(b) == U32(b[1] * 256 + b[2], b[3] * 256 + b[4])
\* struct.pack('>H', v)
PackU16(v) == <<v \div 256, v % 256>>
\* struct.unpack('>H', b)[0]
UnpackU16(b) == b[1] * 256 + b[2]

(***************************************************************************)
(* str.encode('utf-8') and bytes.decode('utf-8', errors='ignore').         *)
(***************************************************************************)
Utf8Char(cp) ==
    IF cp < 128 THEN <<cp>>
    ELSE IF cp < 2048 THEN <<192 + (cp \div 64), 128 + (cp % 64)>>
    ELSE IF cp < 65536 THEN
        <<224 + (cp \div 4096), 128 + ((cp \div 64) % 64), 128 + (cp % 64)>>
    ELSE <<240 + (cp \div 262144), 128 + ((cp \div 4096) % 64),
           128 + ((cp \div 64) % 64), 128 + (cp % 64)>>

\* The bytes of characters lo..hi of s, by halves.
RECURSIVE Utf8EncodeRange(_, _, _)
Utf8EncodeRange(s, lo, hi) ==
    IF lo > hi THEN <<>>
    ELSE IF lo = hi THEN Utf8Char(s[lo])
    ELSE Utf8EncodeRange(s, lo, (lo + hi) \div 2)
         \o Utf8EncodeRange(s, ((lo + hi) \div 2) + 1, hi)

Utf8Encode(s) == Utf8EncodeRange(s, 1, Len(s))

IsCont(b) == b >= 128 /\ b <= 191

\* Number of bytes of the well-formed UTF-8 sequence starting at b[i], or 0.
Utf8SeqLen(b, i) ==
    LET n == Len(b)
        b0 == b[i]
        c(k) == i + k <= n /\ IsCont(b[i + k])
    IN  IF b0 < 128 THEN 1
        ELSE IF b0 >= 194 /\ b0 <= 223 /\ c(1) THEN 2
        ELSE IF b0 = 224 /\ c(1) /\ b[i + 1] >= 160 /\ c(2) THEN 3
        ELSE IF b0 = 237 /\ c(1) /\ b[i + 1] <= 159 /\ c(2) THEN 3
        ELSE IF b0 >= 225 /\ b0 <= 239 /\ b0 # 237 /\ c(1) /\ c(2) THEN 3
        ELSE IF b0 = 240 /\ c(1) /\ b[i + 1] >= 144 /\ c(2) /\ c(3) THEN 4
        ELSE IF b0 = 244 /\ c(1) /\ b[i + 1] <= 143 /\ c(2) /\ c(3) THEN 4
        ELSE IF b0 >= 241 /\ b0 <= 243 /\ c(1) /\ c(2) /\ c(3) THEN 4
        ELSE 0

Utf8CodePoint(b, i, k) ==
    IF k = 1 THEN b[i]
    ELSE IF k = 2 THEN (b[i] - 192) * 64 + (b[i + 1] - 128)
    ELSE IF k = 3 THEN
        (b[i] - 224) * 4096 + (b[i + 1] - 128) * 64 + (b[i + 2] - 128)
    ELSE (b[i] - 240) * 262144 + (b[i + 1] - 128) * 4096
         + (b[i + 2] - 128) * 64 + (b[i + 3] - 128)

RECURSIVE Utf8DecodeFrom(_, _)
Utf8DecodeFrom(b, i) ==
    IF i > Len(b) THEN <<>>
    ELSE LET k == Utf8SeqLen(b, i)
         IN  IF k = 0 THEN Utf8DecodeFrom(b, i + 1)
             ELSE <<Utf8CodePoint(b, i, k)>> \o Utf8DecodeFrom(b, i + k)

Utf8DecodeIgnore(b) == Utf8DecodeFrom(b, 1)

(***************************************************************************)
(* BeaconPacket                                                            *)
(***************************************************************************)
MAGIC == <<82, 72>>          \* b'RH'
VERSION == 1
FLAG_HAS_MESSAGE == 1
FLAG_PROPAGATION_NODE == 2
FLAG_ACCEPTS_LINKS == 4
FLAG_TRANSPORT_ENABLED == 8
MinPacketLen == 26

\* BeaconPacket.__init__; tnow is int(time.time()) at the call.
\* timestamp is Optional: None, or Some(U32).
BeaconPacket(identity_hash, flags, message, timestamp, tnow) ==
    [ identity_hash |-> Take(identity_hash, 16),
      flags |-> flags,
      message |-> IF message # <<>> THEN Take(message, 20) ELSE <<>>,
      timestamp |-> IF timestamp # None /\ timestamp[1] # U32Zero
                    THEN timestamp[1] ELSE tnow ]

\* One turn of the inner loop of BeaconPacket._crc16.
\* Crc16Shift without the polynomial: a plain shift register.
Crc16ShiftNoPoly(crc) == (crc * 2) % 65536

\* (x & 0x8000 is bit 15 of x, x & 0xFFFF is x modulo 2^16.)
Crc16Shift(crc) ==
    IF (crc \div 32768) % 2 = 1
    THEN BitXor(crc * 2, 4129) % 65536
    ELSE (crc * 2) % 65536

\* One turn of the outer loop of BeaconPacket._crc16.
Crc16Byte(crc, byte) ==
    LET c0 == BitXor(crc, byte * 256)
        c1 == Crc16Shift(c0)
        c2 == Crc16Shift(c1)
        c3 == Crc16Shift(c2)
        c4 == Crc16Shift(c3)
        c5 == Crc16Shift(c4)
        c6 == Crc16Shift(c5)
        c7 == Crc16Shift(c6)
    IN  Crc16Shift(c7)

\* The outer loop of BeaconPacket._crc16 over bytes lo..hi of data, by
\* halves; crc is a 16-bit value at every turn.
RECURSIVE Crc16Range(_, _, _, _)
Crc16Range(crc, data, lo, hi) ==
    IF lo > hi THEN crc
    ELSE IF lo = hi THEN Crc16Byte(crc, data[lo])
    ELSE LET left == Crc16Range(crc, data, lo, (lo + hi) \div 2)
         IN  CASE left \in 0..65535 ->
                  Crc16Range(left, data, ((lo + hi) \div 2) + 1, hi)

\* BeaconPacket._crc16
Crc16(data) == Crc16Range(65535, data, 1, Len(data))

\* BeaconPacket.encode
Encode(p) ==
    LET flags == IF p.message # <<>> THEN BitOr(p.flags, FLAG_HAS_MESSAGE)
                 ELSE p.flags
        msg_bytes == Take(Utf8Encode(p.message), 20)
        body == MAGIC \o <<VERSION>> \o <<flags>>
                \o Ljust(p.identity_hash, 16)
                \o PackU32(p.timestamp)
                \o (IF p.message # <<>> THEN <<Len(msg_bytes)>> \o msg_bytes
                    ELSE <<>>)
    IN  body \o PackU16(Crc16(body))

\* The fields decode parses once the three checks have passed.
DecodeFields(data, tnow) ==
    LET flags == data[4]
        identity_hash == Slice(data, 4, 20)
        timestamp == UnpackU32(Slice(data, 20, 24))
        msg_len == data[25]
        message ==
            IF BitAnd(flags, FLAG_HAS_MESSAGE) # 0 /\ Len(data) > 26
               /\ Len(data) >= 25 + msg_len + 2
            THEN Utf8DecodeIgnore(Slice(data, 25, 25 + msg_len))
            ELSE <<>>
    IN  Some(BeaconPacket(identity_hash,
                          flags - BitAnd(flags, FLAG_HAS_MESSAGE),
                          message, Some(timestamp), tnow))

\* decode without the checksum comparison
DecodeNoCrc(data, tnow) ==
    IF Len(data) < MinPacketLen THEN None
    ELSE IF Take(data, 2) # MAGIC THEN None
    ELSE DecodeFields(data, tnow)

\* decode without the magic comparison
DecodeNoMagic(data, tnow) ==
    IF Len(data) < MinPacketLen THEN None
    ELSE IF UnpackU16(Slice(data, Len(data) - 2, Len(data)))
            # Crc16(Slice(data, 0, Len(data) - 2)) THEN None
    ELSE DecodeFields(data, tnow)

\* BeaconPacket.decode; tnow is int(time.time()) at the call.
Decode(data, tnow) ==
    IF Len(data) < MinPacketLen THEN None
    ELSE IF Take(data, 2) # MAGIC THEN None
    ELSE IF UnpackU16(Slice(data, Len(data) - 2, Len(data)))
            # Crc16(Slice(data, 0, Len(data) - 2)) THEN None
    ELSE DecodeFields(data, tnow)

(***************************************************************************)
(* Codec harness: build a packet from bounded inputs, encode it, possibly *)
(* damage the bytes the way a noisy or foreign channel would, decode.      *)
(***************************************************************************)
IdBytes(n) == [i \in 1..n |-> (i * 37 + 155) % 256]
IdentityInputs == {IdBytes(n) : n \in {0, 16, MaxIdentityLen}}
FlagInputs == {4, 255}
AsciiMsg(n) == [i \in 1..n |-> 64 + i]
MessageInputs == {<<>>, <<72, 233, 8364>>, AsciiMsg(MaxMessageLen)}
TimestampInputs ==
    {None, Some(U32Zero), Some(U32(26000, 4660)), Some(U32(65535, 65535))}
\* int(time.time()) during the run of the harness
CodecNow == U32(26500, 77)

CodecIdle ==
    /\ c_pc = "idle" /\ c_in = None /\ c_pkt = None /\ c_wire = <<>>
    /\ c_mut = "none" /\ c_out = None

CodecStart ==
    /\ c_pc = "new"
    /\ c_in \in [identity_hash : IdentityInputs, flags : FlagInputs,
                  message : MessageInputs, timestamp : TimestampInputs]
    /\ c_pkt = None
    /\ c_wire = <<>>
    /\ c_mut = "none"
    /\ c_out = None

CodecConstruct ==
    /\ c_pc = "new"
    /\ c_pkt' = Some(BeaconPacket(c_in.identity_hash, c_in.flags, c_in.message,
                                  c_in.timestamp, CodecNow))
    /\ c_pc' = "built"
    /\ UNCHANGED <<c_in, c_wire, c_mut, c_out>>
    /\ UNCHANGED nonCodecVars

CodecEncode ==
    /\ c_pc = "built"
    /\ c_wire' = Encode(c_pkt[1])
    /\ c_pc' = "encoded"
    /\ UNCHANGED <<c_in, c_pkt, c_mut, c_out>>
    /\ UNCHANGED nonCodecVars

\* data with bit k (0 = most significant bit of the first byte) inverted
FlipBit(data, k) ==
    LET i == (k \div 8) + 1
        w == 2 ^ (7 - (k % 8))
    IN  [data EXCEPT ![i] = BitXor(data[i], w)]

CodecFlipBit ==
    /\ c_pc = "encoded" /\ c_mut = "none"
    /\ \E k \in 0..(8 * Len(c_wire) - 1) : c_wire' = FlipBit(c_wire, k)
    /\ c_mut' = "flip"
    /\ UNCHANGED <<c_pc, c_in, c_pkt, c_out>>
    /\ UNCHANGED nonCodecVars

CodecTruncate ==
    /\ c_pc = "encoded" /\ c_mut = "none"
    /\ \E n \in 0..(Len(c_wire) - 1) : c_wire' = Take(c_wire, n)
    /\ c_mut' = "trunc"
    /\ UNCHANGED <<c_pc, c_in, c_pkt, c_out>>
    /\ UNCHANGED nonCodecVars

\* A foreign sender: other leading bytes.
CodecBadMagic ==
    /\ c_pc = "encoded" /\ c_mut = "none"
    /\ \E i \in 1..2, v \in {0, 72, 82} :
          /\ c_wire[i] # v
          /\ c_wire' = [c_wire EXCEPT ![i] = v]
    /\ c_mut' = "magic"
    /\ UNCHANGED <<c_pc, c_in, c_pkt, c_out>>
    /\ UNCHANGED nonCodecVars

\* A sender that checksums what it sends: the last two bytes of a cut or
\* foreign frame are its own CRC.
CodecReseal ==
    /\ c_pc = "encoded" /\ c_mut \in {"trunc", "magic"}
    /\ Len(c_wire) >= 2
    /\ c_wire' = Take(c_wire, Len(c_wire) - 2)
                  \o PackU16(Crc16(Take(c_wire, Len(c_wire) - 2)))
    /\ c_mut' = (IF c_mut = "trunc" THEN "trunc_sealed" ELSE "magic_sealed")
    /\ UNCHANGED <<c_pc, c_in, c_pkt, c_out>>
    /\ UNCHANGED nonCodecVars

CodecDecode ==
    /\ c_pc = "encoded"
    /\ c_out' = Decode(c_wire, CodecNow)
    /\ c_pc' = "decoded"
    /\ UNCHANGED <<c_in, c_pkt, c_wire, c_mut>>
    /\ UNCHANGED nonCodecVars

CodecNext ==
    \/ CodecConstruct
    \/ CodecEncode
    \/ CodecFlipBit
    \/ CodecTruncate
    \/ CodecBadMagic
    \/ CodecReseal
    \/ CodecDecode

(***************************************************************************)
(* decode on the frames of a foreign sender: well-formed header, any       *)
(* flags, and a message region that may be absent or cut short, under a    *)
(* checksum that is right.                                                 *)
(***************************************************************************)
WireFlags == {FLAG_HAS_MESSAGE, FLAG_HAS_MESSAGE + FLAG_ACCEPTS_LINKS, 255,
              FLAG_ACCEPTS_LINKS}
WireStamps == {U32Zero, U32(26367, 4660), U32(65535, 65535)}
\* What follows the timestamp: nothing, a length byte with fewer bytes
\* behind it than it announces, or a whole message.
WireTails == {<<>>, <<5>>, <<3, 65>>, <<20, 65, 66>>, <<0>>, <<1, 65>>}

WireOf(w) ==
    LET body == MAGIC \o <<VERSION, w.flags>> \o w.identity_hash
                \o PackU32(w.timestamp) \o w.tail
    IN  body \o PackU16(Crc16(body))

WireStart ==
    /\ c_pc = "encoded"
    /\ c_in \in [identity_hash : {IdBytes(16), [i \in 1..16 |-> 2 * i]},
                  flags : WireFlags, timestamp : WireStamps,
                  tail : WireTails]
    /\ c_pkt = None
    /\ c_wire = WireOf(c_in)
    /\ c_mut = "foreign"
    /\ c_out = None

WireNext == CodecDecode

(***************************************************************************)
(* KISS framing: FreeDVTNC2Client.send_kiss_frame and                      *)
(* BeaconListener._unescape_kiss.                                          *)
(***************************************************************************)
KISS_FEND == 192
KISS_FESC == 219
KISS_TFEND == 220
KISS_TFESC == 221

\* One turn of the escaping loop of send_kiss_frame.
KissEscapeByte(byte) ==
    IF byte = KISS_FEND THEN <<KISS_FESC, KISS_TFEND>>
    ELSE IF byte = KISS_FESC THEN <<KISS_FESC, KISS_TFESC>>
    ELSE <<byte>>

\* The escaping loop of send_kiss_frame over bytes lo..hi, by halves.
RECURSIVE KissEscapeRange(_, _, _)
KissEscapeRange(data, lo, hi) ==
    IF lo > hi THEN <<>>
    ELSE IF lo = hi THEN KissEscapeByte(data[lo])
    ELSE KissEscapeRange(data, lo, (lo + hi) \div 2)
         \o KissEscapeRange(data, ((lo + hi) \div 2) + 1, hi)

\* The escaping loop without the case for FESC.
KissEscapeFendOnly(data) ==
    LET RECURSIVE FendOnlyRange(_, _)
        FendOnlyRange(lo, hi) ==
            IF lo > hi THEN <<>>
            ELSE IF lo = hi THEN
                IF data[lo] = KISS_FEND THEN <<KISS_FESC, KISS_TFEND>>
                ELSE <<data[lo]>>
            ELSE FendOnlyRange(lo, (lo + hi) \div 2)
                 \o FendOnlyRange(((lo + hi) \div 2) + 1, hi)
    IN  FendOnlyRange(1, Len(data))

\* The escaping loop of send_kiss_frame.
KissEscape(data) == KissEscapeRange(data, 1, Len(data))

\* The frame send_kiss_frame hands to the socket.
KissFrame(data) == <<KISS_FEND, 0>> \o KissEscape(data) \o <<KISS_FEND>>

\* One byte of the while loop of _unescape_kiss.  esc says that the byte
\* before was a KISS_FESC not yet consumed: the loop then reads this byte as
\* data[i + 1] and steps over both; an FESC that is the last byte ends the
\* loop with nothing appended.
UnescapeByte(st, byte) ==
    IF st.esc THEN
        [out |-> Append(st.out,
                        IF byte = KISS_TFEND THEN KISS_FEND
                        ELSE IF byte = KISS_TFESC THEN KISS_FESC
                        ELSE byte),
         esc |-> FALSE]
    ELSE IF byte = KISS_FESC THEN [st EXCEPT !.esc = TRUE]
    ELSE [st EXCEPT !.out = Append(@, byte)]

\* The while loop of _unescape_kiss over bytes lo..hi of data, by halves.
RECURSIVE UnescapeRange(_, _, _, _)
UnescapeRange(st, data, lo, hi) ==
    IF lo > hi THEN st
    ELSE IF lo = hi THEN UnescapeByte(st, data[lo])
    ELSE LET left == UnescapeRange(st, data, lo, (lo + hi) \div 2)
         IN  CASE left.esc \in BOOLEAN ->
                  UnescapeRange(left, data, ((lo + hi) \div 2) + 1, hi)

\* BeaconListener._unescape_kiss: data is the command byte and what follows.
UnescapeKiss(data) ==
    IF Len(data) < 2 THEN None
    ELSE IF data[1] # 0 THEN None
    ELSE Some(UnescapeRange([out |-> <<>>, esc |-> FALSE], data, 2,
                            Len(data)).out)

(***************************************************************************)
(* Framing harness: frame a bounded payload, unescape what lies between    *)
(* the two delimiters.                                                     *)
(***************************************************************************)
PayloadBytes == {0, 65, KISS_FEND, KISS_FESC, KISS_TFEND, KISS_TFESC}

RECURSIVE SeqsUpTo(_, _)
SeqsUpTo(S, n) ==
    IF n = 0 THEN {<<>>}
    ELSE LET shorter == SeqsUpTo(S, n - 1)
         IN  shorter \cup {Append(q, x) : q \in shorter, x \in S}

StreamIdle == k_stream = <<>> /\ k_read = 0 /\ k_frames = <<>>

KissIdle ==
    /\ k_pc = "idle" /\ k_payload = <<>> /\ k_frame = <<>> /\ k_out = None
    /\ StreamIdle

KissStart ==
    /\ k_pc = "new"
    /\ k_payload \in SeqsUpTo(PayloadBytes, MaxPayloadLen)
    /\ k_frame = <<>>
    /\ k_out = None
    /\ StreamIdle

KissSend ==
    /\ k_pc = "new"
    /\ k_frame' = KissFrame(k_payload)
    /\ k_pc' = "framed"
    /\ UNCHANGED <<k_payload, k_out, k_stream, k_read, k_frames>>
    /\ UNCHANGED nonKissVars

\* What lies between the two delimiters of a frame of send_kiss_frame.
Between(frame) == SubSeq(frame, 2, Len(frame) - 1)

KissUnescape ==
    /\ k_pc = "framed"
    /\ k_out' = UnescapeKiss(Between(k_frame))
    /\ k_pc' = "unescaped"
    /\ UNCHANGED <<k_payload, k_frame, k_stream, k_read, k_frames>>
    /\ UNCHANGED nonKissVars

KissNext ==
    \/ KissSend
    \/ KissUnescape

(***************************************************************************)
(* PeerTable.  _peers is a dict: keys in insertion order and the           *)
(* DiscoveredPeer of each key.                                             *)
(***************************************************************************)
MaxAgeSeconds == 7200

\* PeerTable.__init__
EmptyTable == [keys |-> <<>>, peer |-> <<>>]

Has(t, id) == id \in DOMAIN t.peer

\* PeerTable.__len__
TableLen(t) == Len(t.keys)

\* bool(table): an object with __len__ is false when its length is 0.
Truthy(t) == TableLen(t) # 0

\* The locked section of PeerTable.update; tnow was read before the lock.
PeerTableUpdate(t, packet, rx_level, tnow) ==
    LET id == packet.identity_hash
    IN  IF Has(t, id)
        THEN [t EXCEPT !.peer[id] =
                 [@ EXCEPT !.last_seen = tnow,
                           !.message = IF packet.message # <<>>
                                       THEN packet.message ELSE @,
                           !.flags = packet.flags,
                           !.rx_count = @ + 1,
                           !.last_rx_level = rx_level]]
        ELSE [keys |-> Append(t.keys, id),
              peer |-> [x \in DOMAIN t.peer \cup {id} |->
                          IF x = id
                          THEN [identity_hash |-> id,
                                first_seen |-> tnow,
                                last_seen |-> tnow,
                                message |-> packet.message,
                                flags |-> packet.flags,
                                rx_count |-> 1,
                                last_rx_level |-> rx_level]
                          ELSE t.peer[x]]]

\* PeerTable.clear
PeerTableClear(t) == EmptyTable

RECURSIVE KeepKeys(_, _)
KeepKeys(keys, kept) ==
    IF keys = <<>> THEN <<>>
    ELSE (IF Head(keys) \in kept THEN <<Head(keys)>> ELSE <<>>)
         \o KeepKeys(Tail(keys), kept)

\* remove_stale that judges an entry by first_seen.
PeerTableRemoveStaleByFirstSeen(t, tnow) ==
    LET kept == {k \in DOMAIN t.peer :
                   ~(tnow - t.peer[k].first_seen > MaxAgeSeconds)}
    IN  [keys |-> KeepKeys(t.keys, kept),
         peer |-> [k \in kept |-> t.peer[k]]]

\* remove_stale with `>=` in the place of `>`.
PeerTableRemoveStaleAtWindow(t, tnow) ==
    LET kept == {k \in DOMAIN t.peer :
                   ~(tnow - t.peer[k].last_seen >= MaxAgeSeconds)}
    IN  [keys |-> KeepKeys(t.keys, kept),
         peer |-> [k \in kept |-> t.peer[k]]]

\* The locked section of PeerTable.remove_stale; tnow was read before the
\* lock.
PeerTableRemoveStale(t, tnow) ==
    LET kept == {k \in DOMAIN t.peer :
                   ~(tnow - t.peer[k].last_seen > MaxAgeSeconds)}
    IN  [keys |-> KeepKeys(t.keys, kept),
         peer |-> [k \in kept |-> t.peer[k]]]

\* PeerTable.remove_stale: removed, one for every key of the stale list
RemoveStaleCount(t, tnow) ==
    Cardinality({k \in DOMAIN t.peer :
                   tnow - t.peer[k].last_seen > MaxAgeSeconds})

\* list(self._peers.values())
PeerList(t) == [i \in 1..Len(t.keys) |-> t.peer[t.keys[i]]]

RECURSIVE FilterFresh(_, _)
FilterFresh(ps, tnow) ==
    IF ps = <<>> THEN <<>>
    ELSE (IF tnow - Head(ps).last_seen < MaxAgeSeconds THEN <<Head(ps)>>
          ELSE <<>>) \o FilterFresh(Tail(ps), tnow)

\* p placed behind every element of the sorted list whose last_seen is not
\* smaller: sorted(..., reverse=True) is stable.
RECURSIVE InsertDesc(_, _)
InsertDesc(sorted, p) ==
    IF sorted = <<>> THEN <<p>>
    ELSE IF Head(sorted).last_seen >= p.last_seen
         THEN <<Head(sorted)>> \o InsertDesc(Tail(sorted), p)
         ELSE <<p>> \o sorted

RECURSIVE SortDesc(_)
SortDesc(ps) ==
    IF ps = <<>> THEN <<>>
    ELSE InsertDesc(SortDesc(SubSeq(ps, 1, Len(ps) - 1)), ps[Len(ps)])

\* PeerTable.get
PeerTableGet(t, identity_hash) ==
    IF Has(t, identity_hash) THEN Some(t.peer[identity_hash]) ELSE None

\* PeerTable.get_all
GetAll(t, include_stale, tnow) ==
    SortDesc(IF include_stale THEN PeerList(t)
             ELSE FilterFresh(PeerList(t), tnow))

(***************************************************************************)
(* BeaconListener                                                          *)
(***************************************************************************)
SchedTable == "sched"     \* the PeerTable BeaconScheduler.__init__ creates
OwnTable == "own"         \* the PeerTable() of BeaconListener.__init__
TableRefs == {SchedTable, OwnTable}

\* BeaconListener.__init__: self.peer_table = peer_table or PeerTable()
ListenerPeerTable(arg, heap) == IF Truthy(heap[arg]) THEN arg ELSE OwnTable

\* One turn of the byte loop of _process_frames; st.out collects the
\* frames handed to _handle_frame.
FeedByte(st, byte) ==
    IF byte = KISS_FEND THEN
        LET frame == IF st.in_frame /\ Len(st.buffer) > 1
                     THEN UnescapeKiss(st.buffer) ELSE None
        IN  [buffer |-> <<>>, in_frame |-> TRUE,
             out |-> IF frame # None /\ frame[1] # <<>>
                     THEN Append(st.out, frame[1]) ELSE st.out]
    ELSE IF st.in_frame THEN [st EXCEPT !.buffer = Append(@, byte)]
    ELSE st

\* The for loop of _process_frames over bytes lo..hi of a chunk, by halves.
RECURSIVE FeedRange(_, _, _, _)
FeedRange(st, chunk, lo, hi) ==
    IF lo > hi THEN st
    ELSE IF lo = hi THEN FeedByte(st, chunk[lo])
    ELSE LET left == FeedRange(st, chunk, lo, (lo + hi) \div 2)
         IN  CASE left.in_frame \in BOOLEAN ->
                  FeedRange(left, chunk, ((lo + hi) \div 2) + 1, hi)

\* The for loop of _process_frames over one recv() result.
\* The byte loop with a buffer that every recv() starts afresh.
FeedChunkFresh(st, chunk) ==
    FeedRange([st EXCEPT !.buffer = <<>>], chunk, 1, Len(chunk))

\* _process_frames: the for loop over the bytes of one recv()
FeedChunk(st, chunk) == FeedRange(st, chunk, 1, Len(chunk))

U32Of(t) == U32(t \div 65536, t % 65536)

\* Seconds since the epoch of a UTC day number and a time of day.
ClockAt(day, h, m, sec) == day * 86400 + h * 3600 + m * 60 + sec

(***************************************************************************)
(* What the data port delivers to the listener.                            *)
(***************************************************************************)
IdA == IdBytes(16)
IdB == [i \in 1..16 |-> 2 * i]
SenderTime == U32(26367, 4660)
PktA1 == BeaconPacket(IdA, FLAG_ACCEPTS_LINKS, <<72, 105>>, Some(SenderTime),
                      SenderTime)
PktA2 == BeaconPacket(IdA, FLAG_PROPAGATION_NODE, <<>>, Some(SenderTime),
                      SenderTime)
PktB == BeaconPacket(IdB, FLAG_ACCEPTS_LINKS, <<66>>, Some(SenderTime),
                     SenderTime)
ValidPayloads == {Encode(PktA1), Encode(PktA2), Encode(PktB)}

Truncated == Take(Encode(PktA2), 25)
BadChecksum ==
    [Encode(PktA1) EXCEPT ![Len(Encode(PktA1))] = (@ + 1) % 256]
BadMagic ==
    LET body == <<88, 72>> \o SubSeq(Encode(PktB), 3, Len(Encode(PktB)) - 2)
    IN  body \o PackU16(Crc16(body))
MalformedPayloads == {Truncated, BadChecksum, BadMagic}

\* recv() results: one frame, or a malformed frame with a valid one behind.
Chunks ==
    {KissFrame(d) : d \in ValidPayloads \cup MalformedPayloads}
    \cup {KissFrame(d) \o KissFrame(Encode(PktB)) : d \in MalformedPayloads}

ListenerRxLevels == {None, Some(-20)}
ListenerT0 == ClockAt(20000, 6, 0, 0)    \* a time.time() value

ListenerStart ==
    /\ now = ListenerT0
    /\ tables = [r \in TableRefs |-> EmptyTable]
    /\ l_peer_table = ListenerPeerTable(SchedTable, tables)
    /\ l_conn = "off"
    /\ l_buffer = <<>>
    /\ l_in_frame = FALSE
    /\ l_queue = <<>>
    /\ l_upd = None
    /\ l_hist = <<>>
    /\ rx_notes = <<>>
    /\ api_out = <<>>

\* _listener_loop: connect succeeded, _process_frames starts.
ListenerConnect ==
    /\ l_conn = "off"
    /\ l_conn' = "connected"
    /\ l_buffer' = <<>>
    /\ l_in_frame' = FALSE
    /\ UNCHANGED <<l_queue, l_upd, l_hist, rx_notes, api_out>>
    /\ UNCHANGED <<now, regVars, nonLsnVars>>

\* recv() returned b'' or failed: back to _listener_loop.
ListenerDisconnect ==
    /\ l_conn = "connected" /\ l_queue = <<>> /\ l_upd = None
    /\ l_conn' = "off"
    /\ UNCHANGED <<l_buffer, l_in_frame, l_queue, l_upd, l_hist, rx_notes,
                   api_out>>
    /\ UNCHANGED <<now, regVars, nonLsnVars>>

\* recv() returned a chunk: the byte loop runs over it.
ListenerRecv ==
    /\ l_conn = "connected" /\ l_queue = <<>> /\ l_upd = None
    /\ Len(l_hist) < MaxFrames
    /\ \E chunk \in Chunks :
         LET st == FeedChunk([buffer |-> l_buffer, in_frame |-> l_in_frame,
                              out |-> <<>>], chunk)
         IN  /\ l_buffer' = st.buffer
             /\ l_in_frame' = st.in_frame
             /\ l_queue' = st.out
    /\ UNCHANGED <<l_conn, l_upd, l_hist, rx_notes, api_out>>
    /\ UNCHANGED <<now, regVars, nonLsnVars>>

\* _handle_frame up to the first statement of PeerTable.update.
ListenerHandleFrame ==
    /\ l_queue # <<>> /\ l_upd = None
    /\ LET packet == Decode(Head(l_queue), U32Of(now))
       IN  IF packet = None
           THEN /\ l_queue' = Tail(l_queue)
                /\ l_hist' = Append(l_hist, "dropped")
                /\ UNCHANGED l_upd
           ELSE /\ \E lvl \in ListenerRxLevels :
                     l_upd' = Some([packet |-> packet[1], rx_level |-> lvl,
                                    now |-> now])
                /\ UNCHANGED <<l_queue, l_hist>>
    /\ UNCHANGED <<l_conn, l_buffer, l_in_frame, rx_notes, api_out>>
    /\ UNCHANGED <<now, regVars, nonLsnVars>>

\* PeerTable.update, then on_beacon_received with the peer as it was before
\* the update of a known peer.
ListenerUpdateStalePeer ==
    /\ l_upd # None
    /\ LET u == l_upd[1]
           old == tables[l_peer_table]
           t == PeerTableUpdate(old, u.packet, u.rx_level, u.now)
           id == u.packet.identity_hash
       IN  /\ tables' = [tables EXCEPT ![l_peer_table] = t]
           /\ rx_notes' = Append(rx_notes,
                  [packet |-> u.packet,
                   peer |-> IF Has(old, id) THEN old.peer[id]
                            ELSE t.peer[id]])
    /\ l_upd' = None
    /\ l_queue' = Tail(l_queue)
    /\ l_hist' = Append(l_hist, "recorded")
    /\ UNCHANGED <<l_conn, l_buffer, l_in_frame, api_out>>
    /\ UNCHANGED <<now, l_peer_table, nonLsnVars>>

\* The locked section of PeerTable.update, then on_beacon_received.
ListenerUpdate ==
    /\ l_upd # None
    /\ LET u == l_upd[1]
           t == PeerTableUpdate(tables[l_peer_table], u.packet, u.rx_level,
                                u.now)
       IN  /\ tables' = [tables EXCEPT ![l_peer_table] = t]
           /\ rx_notes' = Append(rx_notes,
                  [packet |-> u.packet,
                   peer |-> t.peer[u.packet.identity_hash]])
    /\ l_upd' = None
    /\ l_queue' = Tail(l_queue)
    /\ l_hist' = Append(l_hist, "recorded")
    /\ UNCHANGED <<l_conn, l_buffer, l_in_frame, api_out>>
    /\ UNCHANGED <<now, l_peer_table, nonLsnVars>>

\* BeaconScheduler.get_peers (and the peers of get_status)
SchedGetPeers ==
    /\ api_out' = GetAll(tables[SchedTable], FALSE, now)
    /\ UNCHANGED <<l_conn, l_buffer, l_in_frame, l_queue, l_upd, l_hist,
                   rx_notes>>
    /\ UNCHANGED <<now, regVars, nonLsnVars>>

\* BeaconScheduler.clear_peers
SchedClearPeers ==
    /\ tables' = [tables EXCEPT ![SchedTable] = PeerTableClear(@)]
    /\ UNCHANGED <<now, l_peer_table, lsnVars, nonLsnVars>>

ListenerTick ==
    /\ now < ListenerT0 + MaxTicks
    /\ now' = now + 1
    /\ UNCHANGED <<regVars, lsnVars, nonLsnVars>>

ListenerNext ==
    \/ ListenerConnect
    \/ ListenerDisconnect
    \/ ListenerRecv
    \/ ListenerHandleFrame
    \/ ListenerUpdate
    \/ SchedGetPeers
    \/ SchedClearPeers
    \/ ListenerTick

(***************************************************************************)
(* One connection of the Listener delivering a byte stream, which recv()   *)
(* returns in chunks of any size.                                          *)
(***************************************************************************)
MaxStreamLen == 5
StreamBytes == {0, 65, KISS_FEND, KISS_FESC, KISS_TFEND}

StreamStart ==
    /\ k_pc = "idle" /\ k_payload = <<>> /\ k_frame = <<>> /\ k_out = None
    /\ k_stream \in SeqsUpTo(StreamBytes, MaxStreamLen)
    /\ k_read = 0
    /\ k_frames = <<>>

\* recv() returns the next n bytes of the stream and the byte loop runs
\* over them; every completed frame goes to _handle_frame.
StreamRecv ==
    /\ l_conn = "connected"
    /\ \E n \in 1..(Len(k_stream) - k_read) :
         LET chunk == SubSeq(k_stream, k_read + 1, k_read + n)
             st == FeedChunk([buffer |-> l_buffer, in_frame |-> l_in_frame,
                              out |-> <<>>], chunk)
         IN  /\ l_buffer' = st.buffer
             /\ l_in_frame' = st.in_frame
             /\ k_frames' = k_frames \o st.out
             /\ k_read' = k_read + n
    /\ UNCHANGED <<k_pc, k_payload, k_frame, k_out, k_stream>>
    /\ UNCHANGED <<l_conn, l_queue, l_upd, l_hist, rx_notes, api_out>>
    /\ UNCHANGED <<codecVars, now, regVars, ptVars, schedVars, loopVars>>

StreamNext ==
    \/ ListenerConnect
    \/ StreamRecv

(***************************************************************************)
(* PeerTable under concurrent callers.  Every method reads what it needs   *)
(* before `with self._lock`, and the locked section runs as one step.      *)
(***************************************************************************)
Threads == {"t1", "t2"}
RegistryT0 == ClockAt(20000, 6, 0, 0)    \* a time.time() value
\* the arguments of the update calls: a packet and the rx_level
RegistryCalls == {<<PktA1, Some(-20)>>, <<PktA2, None>>, <<PktB, Some(-20)>>}

RegistryStart ==
    /\ pt_clock = RegistryT0
    /\ pt_table = EmptyTable
    /\ pt_thr = [t \in Threads |-> None]
    /\ pt_done = 0
    /\ pt_out = None

\* What a call handed back: its argument, its return value and the
\* time.time() value it read.
Returned(op, arg, ret, at) ==
    Some([op |-> op, arg |-> arg, ret |-> ret, at |-> at])

InUpdate(t) == pt_thr[t] # None /\ pt_thr[t][1].op = "update"
InRemoveStale(t) == pt_thr[t] # None /\ pt_thr[t][1].op = "remove_stale"

\* PeerTable.update up to the lock: now = time.time()
RegistryUpdateEnter(t) ==
    /\ pt_thr[t] = None
    /\ pt_done + Cardinality({u \in Threads : InUpdate(u)}) < MaxUpdates
    /\ \E call \in RegistryCalls :
         pt_thr' = [pt_thr EXCEPT ![t] =
                      Some([op |-> "update", packet |-> call[1],
                            rx_level |-> call[2], now |-> pt_clock])]
    /\ pt_out' = None
    /\ UNCHANGED <<pt_clock, pt_table, pt_done>>
    /\ UNCHANGED nonPtVars

\* PeerTable.update: the locked section and the return
RegistryUpdateCommit(t) ==
    /\ InUpdate(t)
    /\ pt_table' = PeerTableUpdate(pt_table, pt_thr[t][1].packet,
                                   pt_thr[t][1].rx_level, pt_thr[t][1].now)
    /\ pt_thr' = [pt_thr EXCEPT ![t] = None]
    /\ pt_done' = pt_done + 1
    /\ pt_out' = None
    /\ UNCHANGED pt_clock
    /\ UNCHANGED nonPtVars

\* PeerTable.remove_stale up to the lock: now = time.time()
RegistryRemoveStaleEnter(t) ==
    /\ pt_thr[t] = None
    /\ pt_thr' = [pt_thr EXCEPT ![t] =
                    Some([op |-> "remove_stale", packet |-> PktA1,
                          rx_level |-> None, now |-> pt_clock])]
    /\ pt_out' = None
    /\ UNCHANGED <<pt_clock, pt_table, pt_done>>
    /\ UNCHANGED nonPtVars

\* PeerTable.remove_stale: the locked section and the return
RegistryRemoveStaleCommit(t) ==
    /\ InRemoveStale(t)
    /\ pt_table' = PeerTableRemoveStale(pt_table, pt_thr[t][1].now)
    /\ pt_thr' = [pt_thr EXCEPT ![t] = None]
    /\ pt_out' = Returned("remove_stale", None,
                          RemoveStaleCount(pt_table, pt_thr[t][1].now),
                          pt_thr[t][1].now)
    /\ UNCHANGED <<pt_clock, pt_done>>
    /\ UNCHANGED nonPtVars

\* PeerTable.clear
RegistryClear(t) ==
    /\ pt_thr[t] = None
    /\ pt_table # EmptyTable
    /\ pt_table' = PeerTableClear(pt_table)
    /\ pt_out' = Returned("clear", None, None, pt_clock)
    /\ UNCHANGED <<pt_clock, pt_thr, pt_done>>
    /\ UNCHANGED nonPtVars

\* PeerTable.get_all
RegistryGetAll(t) ==
    /\ pt_thr[t] = None
    /\ \E include_stale \in BOOLEAN :
         pt_out' = Returned("get_all", include_stale,
                            GetAll(pt_table, include_stale, pt_clock),
                            pt_clock)
    /\ UNCHANGED <<pt_clock, pt_table, pt_thr, pt_done>>
    /\ UNCHANGED nonPtVars

\* PeerTable.get
RegistryGet(t) ==
    /\ pt_thr[t] = None
    /\ \E identity_hash \in {IdA, IdB} :
         pt_out' = Returned("get", identity_hash,
                            PeerTableGet(pt_table, identity_hash), pt_clock)
    /\ UNCHANGED <<pt_clock, pt_table, pt_thr, pt_done>>
    /\ UNCHANGED nonPtVars

\* The clock moves on by a second, or by the registry's max age.
RegistryTick ==
    /\ \/ /\ (pt_clock - RegistryT0) % MaxAgeSeconds < MaxTicks
          /\ pt_clock' = pt_clock + 1
       \/ /\ pt_clock - RegistryT0 < MaxAgeSeconds
          /\ pt_clock' = pt_clock + MaxAgeSeconds
    /\ pt_out' = None
    /\ UNCHANGED <<pt_table, pt_thr, pt_done>>
    /\ UNCHANGED nonPtVars

RegistryNext ==
    \/ \E t \in Threads : RegistryUpdateEnter(t)
    \/ \E t \in Threads : RegistryUpdateCommit(t)
    \/ \E t \in Threads : RegistryRemoveStaleEnter(t)
    \/ \E t \in Threads : RegistryRemoveStaleCommit(t)
    \/ \E t \in Threads : RegistryClear(t)
    \/ \E t \in Threads : RegistryGetAll(t)
    \/ \E t \in Threads : RegistryGet(t)
    \/ RegistryTick

(***************************************************************************)
(* BeaconConfig and the clock of the scheduler loop                        *)
(***************************************************************************)
BEACON == "beacon"      \* Mode.BEACON
ARQ == "arq"            \* Mode.ARQ
DATAC4 == "DATAC4"
DATAC1 == "DATAC1"
DATAC3 == "DATAC3"

\* x in l, for a Python list l
InList(x, l) == \E i \in DOMAIN l : l[i] = x

\* The defaults of the BeaconConfig dataclass; str fields are sequences of
\* code points.
DefaultConfig ==
    [beacon_hours_utc |-> <<0, 6, 12, 18>>,
     beacon_minute |-> 0,
     beacon_duration_sec |-> 120,
     beacon_tx_delay_sec |-> 10,
     beacon_minutes |-> <<>>,
     beacon_mode |-> DATAC4,
     arq_mode |-> DATAC1,
     station_id |-> <<>>,
     beacon_message |-> <<>>,
     auto_switch |-> TRUE,
     tx_beacon |-> TRUE,
     adaptive_mode |-> FALSE,
     snr_threshold_low |-> -2,
     snr_threshold_high |-> 3,
     operating_mode |-> "hybrid"]

\* datetime.utcnow(): the fields the loop reads
Hour(t) == (t \div 3600) % 24
Minute(t) == (t \div 60) % 60
Second(t) == t % 60

\* in_beacon_window without the test of auto_switch.
InBeaconWindowAnyway(cfg, t) ==
    IF cfg.beacon_minutes # <<>>
    THEN /\ InList(Minute(t), cfg.beacon_minutes)
         /\ Second(t) < cfg.beacon_duration_sec
    ELSE /\ InList(Hour(t), cfg.beacon_hours_utc)
         /\ Minute(t) = cfg.beacon_minute
         /\ Second(t) < cfg.beacon_duration_sec

\* in_beacon_window with the by-hour list consulted first.
InBeaconWindowByHourFirst(cfg, t) ==
    IF cfg.beacon_hours_utc # <<>>
    THEN /\ cfg.auto_switch
         /\ InList(Hour(t), cfg.beacon_hours_utc)
         /\ Minute(t) = cfg.beacon_minute
         /\ Second(t) < cfg.beacon_duration_sec
    ELSE /\ cfg.auto_switch
         /\ InList(Minute(t), cfg.beacon_minutes)
         /\ Second(t) < cfg.beacon_duration_sec

\* _scheduler_loop: in_beacon_window
InBeaconWindow(cfg, t) ==
    IF cfg.beacon_minutes # <<>>
    THEN /\ cfg.auto_switch
         /\ InList(Minute(t), cfg.beacon_minutes)
         /\ Second(t) < cfg.beacon_duration_sec
    ELSE /\ cfg.auto_switch
         /\ InList(Hour(t), cfg.beacon_hours_utc)
         /\ Minute(t) = cfg.beacon_minute
         /\ Second(t) < cfg.beacon_duration_sec

\* The loop's condition for _enter_beacon_mode, without the mode test.
NeedsEntryEveryPoll(in_window, current_mode) == in_window

\* _scheduler_loop: the condition for _enter_beacon_mode
NeedsEntry(in_window, current_mode) == in_window /\ current_mode # BEACON

\* A loop that never calls _enter_arq_mode.
NeedsExitNever(in_window, current_mode) == FALSE

\* _scheduler_loop: the condition for _enter_arq_mode
NeedsExit(in_window, current_mode) == ~in_window /\ current_mode = BEACON

\* _scheduler_loop: the condition for _check_adaptive_mode
AdaptiveDue(cfg, current_mode) == cfg.adaptive_mode /\ current_mode = ARQ

\* The value of one hexadecimal digit given as a character code, -1 if the
\* character is none.
HexVal(c) ==
    IF c \in 48..57 THEN c - 48
    ELSE IF c \in 97..102 THEN c - 87
    ELSE IF c \in 65..70 THEN c - 55
    ELSE -1

\* bytes.fromhex(text) for a text without whitespace; None for ValueError.
FromHex(text) ==
    IF Len(text) % 2 = 1 \/ \E i \in DOMAIN text : HexVal(text[i]) = -1
    THEN None
    ELSE Some([i \in 1..(Len(text) \div 2) |->
                 16 * HexVal(text[2 * i - 1]) + HexVal(text[2 * i])])

(***************************************************************************)
(* The scheduler's calls on FreeDVTNC2Client.  st holds current_mode, the  *)
(* modem (m_mode, m_txwin), the log of the poll and the window tally; o    *)
(* holds what the modem answers.  A command that fails leaves the modem    *)
(* as it was.                                                              *)
(***************************************************************************)
\* The fields of a record are compared in the order kind, ok, what.
Event(kind, what, ok) == [kind |-> kind, ok |-> ok, what |-> what]
Logged(st, kind, arg, ok) == [st EXCEPT !.log = Append(@, Event(kind, arg, ok))]

\* FreeDVTNC2Client.set_mode
SetMode(st, mode, ok) ==
    [Logged(st, "MODE", mode, ok) EXCEPT !.m_mode = IF ok THEN mode ELSE @]

\* FreeDVTNC2Client.tx_window
TxWindow(st, seconds, ok, tnow) ==
    [Logged(st, "TX WINDOW", seconds, ok) EXCEPT
        !.m_txwin = IF ok THEN tnow + seconds ELSE @]

\* on_mode_change(mode, freedv_mode), with a callback registered
NotifyModeChange(st, mode, freedv_mode) ==
    Logged(st, "mode_change", <<mode, freedv_mode>>, TRUE)

\* The minute a poll time lies in: the window a BEACON entry belongs to.
WindowId(t) == t - Second(t)

NoWindow == [id |-> 0, entries |-> 0, frames |-> 0, notes |-> 0,
             frame |-> None]

\* Tally: the scheduler recorded BEACON at a poll made at time tpoll.
TallyEntry(w, tpoll) ==
    IF w.id = WindowId(tpoll) THEN [w EXCEPT !.entries = @ + 1]
    ELSE [NoWindow EXCEPT !.id = WindowId(tpoll), !.entries = 1]

\* BeaconScheduler._transmit_beacon at time tnow
TransmitBeacon(cfg, st, o, tnow) ==
    IF cfg.station_id = <<>> THEN st
    ELSE IF FromHex(cfg.station_id) = None THEN st
    ELSE LET packet == BeaconPacket(FromHex(cfg.station_id)[1],
                                    FLAG_ACCEPTS_LINKS, cfg.beacon_message,
                                    None, U32Of(tnow))
             frame == KissFrame(Encode(packet))
             sent == Logged(st, "FRAME", frame, o.send_ok)
         IN  IF o.send_ok
             THEN [Logged(sent, "beacon_tx", packet, TRUE) EXCEPT
                      !.w = [@ EXCEPT !.frames = @ + 1, !.notes = @ + 1,
                                      !.frame = Some(frame)]]
             ELSE sent

\* _enter_beacon_mode never returns before the modem commands.
SkipsBeaconWindowNever(cfg) == FALSE

\* _enter_beacon_mode: the early return of the internet_only mode
SkipsBeaconWindow(cfg) == cfg.operating_mode = "internet_only"

\* _enter_beacon_mode opening the transmit window in every operating mode
\* that reaches the modem commands.
EnterBeaconModeWindowAlways(cfg, st, o, tpoll) ==
    IF SkipsBeaconWindow(cfg) THEN st
    ELSE LET st1 == TxWindow(st, cfg.beacon_duration_sec, o.txwin_ok, tpoll)
             st2 == SetMode(st1, cfg.beacon_mode, o.mode_ok)
         IN  IF ~o.mode_ok THEN st2
             ELSE [NotifyModeChange(st2, BEACON, cfg.beacon_mode) EXCEPT
                      !.current_mode = BEACON,
                      !.w = TallyEntry(@, tpoll),
                      !.sleep = cfg.tx_beacon]

\* BeaconScheduler._enter_beacon_mode up to time.sleep(beacon_tx_delay_sec);
\* st.sleep says that the sleep was reached.
EnterBeaconMode(cfg, st, o, tpoll) ==
    IF SkipsBeaconWindow(cfg) THEN st
    ELSE LET st1 == IF cfg.operating_mode = "hybrid"
                    THEN TxWindow(st, cfg.beacon_duration_sec, o.txwin_ok,
                                  tpoll)
                    ELSE st
             st2 == SetMode(st1, cfg.beacon_mode, o.mode_ok)
         IN  IF ~o.mode_ok THEN st2
             ELSE [NotifyModeChange(st2, BEACON, cfg.beacon_mode) EXCEPT
                      !.current_mode = BEACON,
                      !.w = TallyEntry(@, tpoll),
                      !.sleep = cfg.tx_beacon]

\* is_channel_clear taking a STATUS that is not answered for a clear channel.
IsChannelNotBusy(o) == o.chan # "BUSY"

\* FreeDVTNC2Client.is_channel_clear: STATUS answered and CHANNEL=CLEAR
IsChannelClear(o) == o.chan = "CLEAR"

\* BeaconScheduler._enter_beacon_mode after the sleep, at time tnow
EnterBeaconModeAfterDelay(cfg, st, o, tnow) ==
    LET st1 == Logged(st, "STATUS", o.chan, o.chan # "fail")
    IN  IF IsChannelClear(o) THEN TransmitBeacon(cfg, st1, o, tnow) ELSE st1

\* _enter_arq_mode recording ARQ whatever the modem answers.
EnterArqModeRegardless(cfg, st, o) ==
    [NotifyModeChange(SetMode(st, cfg.arq_mode, o.mode_ok), ARQ,
                      cfg.arq_mode) EXCEPT !.current_mode = ARQ]

\* BeaconScheduler._enter_arq_mode
EnterArqMode(cfg, st, o) ==
    LET st1 == SetMode(st, cfg.arq_mode, o.mode_ok)
    IN  IF ~o.mode_ok THEN st1
        ELSE [NotifyModeChange(st1, ARQ, cfg.arq_mode) EXCEPT
                 !.current_mode = ARQ]

\* FreeDVTNC2Client.get_mode: the modem's mode if STATUS is answered and
\* names a FreeDVMode
GetMode(st, ok) ==
    IF ok /\ st.m_mode \in {DATAC4, "DATAC0", DATAC1, DATAC3}
    THEN Some(st.m_mode)
    ELSE None

\* _check_adaptive_mode with `<=` and `>=` at the thresholds.
CheckAdaptiveModeAtThreshold(cfg, st, o) ==
    LET st1 == Logged(st, "LEVELS", o.lvl, o.lvl # None)
        st2 == Logged(st1, "STATUS", st.m_mode, o.status_ok)
        current == GetMode(st, o.status_ok)
    IN  IF o.lvl = None THEN st1
        ELSE IF current = None THEN st2
        ELSE LET estimated_snr == o.lvl[1] + 35
             IN  IF estimated_snr <= cfg.snr_threshold_low
                 THEN IF current[1] # DATAC3
                      THEN SetMode(st2, DATAC3, o.adapt_ok) ELSE st2
                 ELSE IF estimated_snr >= cfg.snr_threshold_high
                      THEN IF current[1] # DATAC1
                           THEN SetMode(st2, DATAC1, o.adapt_ok) ELSE st2
                      ELSE st2

\* BeaconScheduler._check_adaptive_mode; o.lvl is what get_rx_level returns
CheckAdaptiveMode(cfg, st, o) ==
    LET st1 == Logged(st, "LEVELS", o.lvl, o.lvl # None)
        st2 == Logged(st1, "STATUS", st.m_mode, o.status_ok)
        current == GetMode(st, o.status_ok)
    IN  IF o.lvl = None THEN st1
        ELSE IF current = None THEN st2
        ELSE LET estimated_snr == o.lvl[1] + 35
             IN  IF estimated_snr < cfg.snr_threshold_low
                 THEN IF current[1] # DATAC3
                      THEN SetMode(st2, DATAC3, o.adapt_ok) ELSE st2
                 ELSE IF estimated_snr > cfg.snr_threshold_high
                      THEN IF current[1] # DATAC1
                           THEN SetMode(st2, DATAC1, o.adapt_ok) ELSE st2
                      ELSE st2

(***************************************************************************)
(* The scheduler thread, the modem and the clock.  A run starts shortly    *)
(* before or inside a beacon window and lasts s_horizon - s_clock seconds. *)
(***************************************************************************)
HexDigit(n) == IF n < 10 THEN 48 + n ELSE 87 + n

\* The hex text of the 16-byte identity IdA.
StationHex ==
    [i \in 1..32 |-> IF i % 2 = 1 THEN HexDigit(IdA[(i + 1) \div 2] \div 16)
                     ELSE HexDigit(IdA[i \div 2] % 16)]

StationMessage == <<76, 70, 77>>

Station == [DefaultConfig EXCEPT !.station_id = StationHex,
                                 !.beacon_message = StationMessage]

\* The three schedules: the defaults, one window a day of 60 seconds, and
\* the legacy strategy with two short windows an hour.
SixHourly == Station
Daily == [Station EXCEPT !.beacon_hours_utc = <<0>>,
                         !.beacon_duration_sec = 60,
                         !.beacon_tx_delay_sec = 5]
ByMinute == [Station EXCEPT !.beacon_minutes = <<0, 1>>,
                            !.beacon_duration_sec = 3,
                            !.beacon_tx_delay_sec = 1]

OperatingModes == {"hybrid", "hf_only", "internet_only"}

Variants(base) ==
    {[base EXCEPT !.operating_mode = om, !.tx_beacon = tx,
                  !.adaptive_mode = ad] :
        om \in OperatingModes, tx \in BOOLEAN, ad \in BOOLEAN}

\* No station identity, an identity that is not hexadecimal, no automatic
\* switching.
Oddities(base) ==
    {[base EXCEPT !.station_id = <<>>],
     [base EXCEPT !.station_id = <<120, 121>>],
     [base EXCEPT !.auto_switch = FALSE]}

\* coop: every modem command is answered OK and every frame is accepted;
\* clear: the channel is reported clear whenever STATUS is answered.
Envs == {[coop |-> TRUE, clear |-> TRUE],
         [coop |-> TRUE, clear |-> FALSE],
         [coop |-> FALSE, clear |-> FALSE]}

\* The modem answers every command and the channel is clear, or neither.
LifeEnvs == {env \in Envs : env.coop = env.clear}

\* A clock value of the runs: a time of day on day 20000 after the epoch.
RunClock(h, m, sec) == ClockAt(20000, h, m, sec)

Runs ==
    {[cfg |-> c, start |-> t, span |-> ShortSpan] :
        c \in Variants(SixHourly),
        t \in {RunClock(5, 59, 58), RunClock(6, 0, 57),
               RunClock(6, 1, 57)}}
    \cup {[cfg |-> c, start |-> t, span |-> ShortSpan] :
            c \in Variants(Daily) \cup Oddities(Daily),
            t \in {RunClock(23, 59, 58), RunClock(0, 0, 57)}}
    \cup {[cfg |-> c, start |-> RunClock(11, 59, 58), span |-> LongSpan] :
            c \in {v \in Variants(ByMinute) : ~v.adaptive_mode}}

RxLevels == {-40, -37, -32, -30}

Oks(env) == IF env.coop THEN {TRUE} ELSE BOOLEAN

\* What the modem may answer to the commands of a mode switch.
SwitchAnswers(env, with_txwin, with_mode) ==
    [txwin_ok : IF with_txwin THEN Oks(env) ELSE {TRUE},
     mode_ok : IF with_mode THEN Oks(env) ELSE {TRUE}]

\* What the modem may answer to the commands of the adaptive step: no
\* level, a level and no status, or a level, the status and an answer to
\* MODE.
AdaptiveAnswers(env, due) ==
    IF ~due THEN {[lvl |-> None, status_ok |-> TRUE, adapt_ok |-> TRUE]}
    ELSE [lvl : {Some(l) : l \in RxLevels}, status_ok : {TRUE},
          adapt_ok : Oks(env)]
         \cup (IF env.coop THEN {}
               ELSE [lvl : {Some(l) : l \in RxLevels}, status_ok : {FALSE},
                     adapt_ok : {TRUE}]
                    \cup {[lvl |-> None, status_ok |-> TRUE,
                           adapt_ok |-> TRUE]})

\* What the modem may answer after the listen-before-transmit delay.
DelayAnswers(env) ==
    [chan : {"CLEAR"}, send_ok : Oks(env)]
    \cup [chan : (IF env.clear THEN {} ELSE {"BUSY"})
                 \cup (IF env.coop THEN {} ELSE {"fail"}),
          send_ok : {TRUE}]

\* What a call of the BeaconScheduler handed back, and the mode the modem
\* was in when the call was made.
Ret(op, ret, was) == Some([op |-> op, ret |-> ret, was |-> was])

\* BeaconListener.__init__: no listener thread yet.
LoopOff == l_pc = "off" /\ l_delay = 1 /\ l_wake = 0 /\ l_fails = 0

\* A loop that does not test its condition.
LoopRunsAlways(running) == TRUE

\* The test of the while loops: self.running and not _stop_event.is_set().
\* stop() clears the one and sets the other, start() the reverse.
LoopRuns(running) == running

SchedState ==
    [current_mode |-> s_current_mode, m_mode |-> m_mode,
     m_txwin |-> m_txwin, log |-> <<>>, w |-> s_win, sleep |-> FALSE]

\* BeaconScheduler.__init__; the modem is in some data mode.
SchedIdle ==
    /\ s_cfg = Station
    /\ s_env = [coop |-> TRUE, clear |-> TRUE]
    /\ s_clock = RunClock(0, 0, 0)
    /\ s_horizon = RunClock(0, 0, 0)
    /\ s_running = FALSE
    /\ s_pc = "off"
    /\ s_wake = 0
    /\ s_current_mode = ARQ
    /\ s_listener = "stopped"
    /\ m_mode = DATAC1
    /\ m_txwin = 0
    /\ s_log = <<>>
    /\ s_poll = None
    /\ s_win = NoWindow
    /\ s_ret = None
    /\ s_stop = None
    /\ s_calls = 0
    /\ s_old = None
    /\ s_force = None
    /\ LoopOff

SchedInit ==
    /\ \E r \in Runs, env \in Envs :
         /\ s_cfg = r.cfg
         /\ s_env = env
         /\ s_clock = r.start
         /\ s_horizon = r.start + r.span
    /\ s_running = FALSE
    /\ s_pc = "off"
    /\ s_wake = 0
    /\ s_current_mode = ARQ
    /\ s_listener = "stopped"
    /\ m_mode = DATAC1
    /\ m_txwin = 0
    /\ s_log = <<>>
    /\ s_poll = None
    /\ s_win = NoWindow
    /\ s_ret = None
    /\ s_stop = None
    /\ s_calls = 0
    /\ s_old = None
    /\ s_force = None
    /\ LoopOff

\* start() that goes on when the initial MODE command fails.
StartProceedsOnPing(ping_ok, mode_ok) == ping_ok

\* BeaconScheduler.start: neither `return False` is taken.
StartProceeds(ping_ok, mode_ok) == ping_ok /\ mode_ok

\* start() that also records ARQ as the runtime mode.
SchedStartResetsMode ==
    /\ ~s_running /\ s_stop = None /\ s_calls < MaxCalls
    /\ s_pc \in {"off", "exited"} /\ l_pc \in {"off", "exited"}
    /\ \E ping_ok \in Oks(s_env), mode_ok \in Oks(s_env) :
         LET st0 == Logged(SchedState, "PING", <<>>, ping_ok)
             st1 == IF ping_ok THEN SetMode(st0, s_cfg.arq_mode, mode_ok)
                    ELSE st0
             started == StartProceeds(ping_ok, mode_ok)
         IN  /\ m_mode' = st1.m_mode
             /\ s_log' = st1.log
             /\ s_running' = started
             /\ s_pc' = IF started THEN "wait" ELSE s_pc
             /\ s_wake' = IF started THEN s_clock ELSE s_wake
             /\ s_listener' = IF started THEN "started" ELSE s_listener
             /\ l_pc' = IF started THEN "connect" ELSE l_pc
             /\ l_delay' = IF started THEN 1 ELSE l_delay
             /\ l_wake' = IF started THEN 0 ELSE l_wake
             /\ l_fails' = IF started THEN 0 ELSE l_fails
             /\ s_ret' = Ret("start", started, None)
    /\ s_poll' = None
    /\ s_calls' = s_calls + 1
    /\ s_current_mode' = ARQ
    /\ UNCHANGED <<s_cfg, s_env, s_clock, s_horizon, m_txwin, s_win, s_stop>>
    /\ UNCHANGED nonSchedVars

\* BeaconScheduler.start
SchedStart ==
    /\ ~s_running /\ s_stop = None /\ s_calls < MaxCalls
    /\ s_pc \in {"off", "exited"} /\ l_pc \in {"off", "exited"}
    /\ \E ping_ok \in Oks(s_env), mode_ok \in Oks(s_env) :
         LET st0 == Logged(SchedState, "PING", <<>>, ping_ok)
             st1 == IF ping_ok THEN SetMode(st0, s_cfg.arq_mode, mode_ok)
                    ELSE st0
             started == StartProceeds(ping_ok, mode_ok)
         IN  /\ m_mode' = st1.m_mode
             /\ s_log' = st1.log
             /\ s_running' = started
             /\ s_pc' = IF started THEN "wait" ELSE s_pc
             /\ s_wake' = IF started THEN s_clock ELSE s_wake
             /\ s_listener' = IF started THEN "started" ELSE s_listener
             /\ l_pc' = IF started THEN "connect" ELSE l_pc
             /\ l_delay' = IF started THEN 1 ELSE l_delay
             /\ l_wake' = IF started THEN 0 ELSE l_wake
             /\ l_fails' = IF started THEN 0 ELSE l_fails
             /\ s_ret' = Ret("start", started, None)
    /\ s_poll' = None
    /\ s_calls' = s_calls + 1
    /\ UNCHANGED <<s_cfg, s_env, s_clock, s_horizon, s_current_mode, m_txwin,
                   s_win, s_stop>>
    /\ UNCHANGED nonSchedVars

\* One pass of the while loop of _scheduler_loop, up to _stop_event.wait(1.0)
\* or up to the time.sleep inside _enter_beacon_mode.
SchedPoll ==
    /\ LoopRuns(s_running) /\ s_pc = "wait" /\ s_clock >= s_wake
    /\ LET in_window == InBeaconWindow(s_cfg, s_clock)
           entering == NeedsEntry(in_window, s_current_mode)
           leaving == NeedsExit(in_window, s_current_mode)
           commands == entering /\ ~SkipsBeaconWindow(s_cfg)
       IN  \E o \in SwitchAnswers(
                       s_env,
                       commands /\ s_cfg.operating_mode = "hybrid",
                       commands \/ leaving) :
           \E st1 \in {IF entering
                        THEN EnterBeaconMode(s_cfg, SchedState, o, s_clock)
                        ELSE IF leaving
                             THEN EnterArqMode(s_cfg, SchedState, o)
                             ELSE SchedState} :
           \E a \in AdaptiveAnswers(
                       s_env,
                       ~st1.sleep /\ AdaptiveDue(s_cfg, st1.current_mode)) :
           \E st2 \in {IF ~st1.sleep
                           /\ AdaptiveDue(s_cfg, st1.current_mode)
                        THEN CheckAdaptiveMode(s_cfg, st1, a)
                        ELSE st1} :
               /\ s_poll' = Some([time |-> s_clock,
                                  in_window |-> in_window])
               /\ s_current_mode' = st2.current_mode
               /\ m_mode' = st2.m_mode
               /\ m_txwin' = st2.m_txwin
               /\ s_log' = st2.log
               /\ s_win' = st2.w
               /\ s_pc' = IF st2.sleep THEN "tx_delay" ELSE "wait"
               /\ s_wake' = IF st2.sleep
                            THEN s_clock + s_cfg.beacon_tx_delay_sec
                            ELSE s_clock + 1
    /\ s_ret' = None
    /\ UNCHANGED <<s_cfg, s_env, s_clock, s_horizon, s_running, s_listener,
                   s_stop, s_calls>>
    /\ UNCHANGED <<nonSchedVars, loopVars>>

\* The rest of the pass once time.sleep(beacon_tx_delay_sec) is over.
SchedAfterTxDelay ==
    /\ s_pc = "tx_delay" /\ s_clock >= s_wake
    /\ \E o \in DelayAnswers(s_env) :
       \E st1 \in {EnterBeaconModeAfterDelay(
                       s_cfg, [SchedState EXCEPT !.log = s_log], o,
                       s_clock)} :
       \E a \in AdaptiveAnswers(s_env,
                                 AdaptiveDue(s_cfg, st1.current_mode)) :
       \E st2 \in {IF AdaptiveDue(s_cfg, st1.current_mode)
                    THEN CheckAdaptiveMode(s_cfg, st1, a)
                    ELSE st1} :
           /\ s_current_mode' = st2.current_mode
           /\ m_mode' = st2.m_mode
           /\ m_txwin' = st2.m_txwin
           /\ s_log' = st2.log
           /\ s_win' = st2.w
    /\ s_pc' = "wait"
    /\ s_wake' = s_clock + 1
    /\ s_ret' = None
    /\ UNCHANGED <<s_cfg, s_env, s_clock, s_horizon, s_running, s_listener,
                   s_poll, s_stop, s_calls>>
    /\ UNCHANGED <<nonSchedVars, loopVars>>

\* A second passes; a sleeping thread is woken at most MaxLate seconds late.
SchedTick ==
    /\ s_clock < s_horizon
    /\ s_running => s_clock < s_wake + MaxLate
    /\ s_clock' = s_clock + 1
    /\ s_ret' = None
    /\ UNCHANGED <<s_cfg, s_env, s_horizon, s_running, s_pc, s_wake,
                   s_current_mode, s_listener, m_mode, m_txwin, s_log, s_poll,
                   s_win, s_stop, s_calls>>
    /\ UNCHANGED <<nonSchedVars, loopVars>>

SchedNext ==
    \/ SchedStart
    \/ SchedPoll
    \/ SchedAfterTxDelay
    \/ SchedTick

(***************************************************************************)
(* start(), stop() and force_beacon() called by one thread while the       *)
(* scheduler thread and the listener thread run.                           *)
(***************************************************************************)
\* What _transmit_beacon does at time tnow, for either answer to the frame:
\* the frame and the notification of on_beacon_tx.
TransmitEvents(cfg, tnow) ==
    [ok \in BOOLEAN |->
        IF cfg.tx_beacon
        THEN TransmitBeacon(cfg, [SchedState EXCEPT !.log = <<>>],
                            [send_ok |-> ok], tnow).log
        ELSE <<>>]

\* force_beacon without the test of tx_beacon.
ForceBeaconAnyway(cfg, st, o, sent) ==
    LET original_mode == GetMode(st, o.status_ok)
        st1 == Logged(st, "STATUS", st.m_mode, o.status_ok)
        st2 == SetMode(st1, cfg.beacon_mode, o.mode_ok)
    IN  IF ~o.mode_ok THEN [st |-> st2, ret |-> FALSE]
        ELSE LET st3 == [st2 EXCEPT !.log = @ \o sent[o.send_ok]]
             IN  [st |-> IF original_mode # None
                         THEN SetMode(st3, original_mode[1], o.restore_ok)
                         ELSE st3,
                  ret |-> TRUE]

\* BeaconScheduler.force_beacon; sent is what its call of _transmit_beacon
\* does.
ForceBeacon(cfg, st, o, sent) ==
    IF ~cfg.tx_beacon THEN [st |-> st, ret |-> FALSE]
    ELSE LET original_mode == GetMode(st, o.status_ok)
             st1 == Logged(st, "STATUS", st.m_mode, o.status_ok)
             st2 == SetMode(st1, cfg.beacon_mode, o.mode_ok)
         IN  IF ~o.mode_ok THEN [st |-> st2, ret |-> FALSE]
             ELSE LET st3 == [st2 EXCEPT !.log = @ \o sent[o.send_ok]]
                  IN  [st |-> IF original_mode # None
                              THEN SetMode(st3, original_mode[1],
                                           o.restore_ok)
                              ELSE st3,
                       ret |-> TRUE]

\* What the modem may answer to the commands of force_beacon.
ForceAnswers(env, cfg) ==
    IF ~cfg.tx_beacon
    THEN {[status_ok |-> TRUE, mode_ok |-> TRUE, send_ok |-> TRUE,
           restore_ok |-> TRUE]}
    ELSE [status_ok : Oks(env), mode_ok : {TRUE}, send_ok : Oks(env),
          restore_ok : Oks(env)]
         \cup [status_ok : Oks(env), mode_ok : Oks(env) \ {TRUE},
               send_ok : {TRUE}, restore_ok : {TRUE}]

\* BeaconScheduler.start when self.running: return True
SchedStartRunning ==
    /\ s_running /\ s_stop = None /\ s_calls < MaxCalls
    /\ s_ret' = Ret("start", TRUE, None)
    /\ s_log' = <<>>
    /\ s_calls' = s_calls + 1
    /\ UNCHANGED <<s_cfg, s_env, s_clock, s_horizon, s_running, s_pc, s_wake,
                   s_current_mode, s_listener, m_mode, m_txwin, s_poll,
                   s_win, s_stop>>
    /\ UNCHANGED <<nonSchedVars, loopVars>>

\* BeaconScheduler.stop up to the join of the scheduler thread, with
\* BeaconListener.stop: the flags are cleared, the events set, the socket
\* closed.
SchedStopBegin ==
    /\ s_stop = None /\ s_calls < MaxCalls
    /\ s_calls' = s_calls + 1
    /\ IF ~s_running
       THEN /\ s_ret' = Ret("stop", None, None)
            /\ UNCHANGED <<s_running, s_listener, s_stop>>
       ELSE /\ s_running' = FALSE
            /\ s_listener' = "stopped"
            /\ s_stop' = Some(s_clock + 5)
            /\ s_ret' = None
    /\ s_log' = <<>>
    /\ UNCHANGED <<s_cfg, s_env, s_clock, s_horizon, s_pc, s_wake,
                   s_current_mode, m_mode, m_txwin, s_poll, s_win>>
    /\ UNCHANGED <<nonSchedVars, loopVars>>

\* BeaconScheduler.stop from the return of the joins (the listener's and the
\* scheduler thread's, each join(timeout=5)): both threads have exited, or a
\* timeout is over, which is 5 seconds after the call at the earliest; then
\* set_mode(arq_mode).
SchedStopEnd ==
    /\ s_stop # None
    /\ \/ s_pc \in {"off", "exited"} /\ l_pc \in {"off", "exited"}
       \/ s_clock >= s_stop[1]
    /\ \E mode_ok \in Oks(s_env) :
         LET st == SetMode(SchedState, s_cfg.arq_mode, mode_ok)
         IN  /\ m_mode' = st.m_mode
             /\ s_log' = st.log
    /\ s_ret' = Ret("stop", None, None)
    /\ s_stop' = None
    /\ UNCHANGED <<s_cfg, s_env, s_clock, s_horizon, s_running, s_pc, s_wake,
                   s_current_mode, s_listener, m_txwin, s_poll, s_win,
                   s_calls>>
    /\ UNCHANGED <<nonSchedVars, loopVars>>

\* BeaconScheduler.force_beacon
SchedForceBeacon ==
    /\ s_stop = None /\ s_calls < MaxCalls
    /\ s_calls' = s_calls + 1
    /\ \E sent \in {TransmitEvents(s_cfg, s_clock)} :
       \E o \in ForceAnswers(s_env, s_cfg) :
       \E r \in {ForceBeacon(s_cfg, SchedState, o, sent)} :
           /\ m_mode' = r.st.m_mode
           /\ s_log' = r.st.log
           /\ s_ret' = Ret("force_beacon", r.ret, m_mode)
    /\ UNCHANGED <<s_cfg, s_env, s_clock, s_horizon, s_running, s_pc, s_wake,
                   s_current_mode, s_listener, m_txwin, s_poll, s_win,
                   s_stop>>
    /\ UNCHANGED <<nonSchedVars, loopVars>>

\* _scheduler_loop: _stop_event.wait(1.0) returns at once when the event is
\* set, and the test of the while loop fails.
SchedLoopExit ==
    /\ s_pc = "wait" /\ ~LoopRuns(s_running)
    /\ s_pc' = "exited"
    /\ s_wake' = 0
    /\ s_ret' = None
    /\ UNCHANGED <<s_cfg, s_env, s_clock, s_horizon, s_running,
                   s_current_mode, s_listener, m_mode, m_txwin, s_log,
                   s_poll, s_win, s_stop, s_calls>>
    /\ UNCHANGED <<nonSchedVars, loopVars>>

\* A second passes after the end of the run, for a thread in time.sleep or
\* a caller in join.
SchedTickLate ==
    /\ s_clock >= s_horizon
    /\ \/ s_pc = "tx_delay" /\ s_clock < s_wake
       \/ s_stop # None /\ s_clock < s_stop[1]
    /\ s_clock' = s_clock + 1
    /\ s_ret' = None
    /\ UNCHANGED <<s_cfg, s_env, s_horizon, s_running, s_pc, s_wake,
                   s_current_mode, s_listener, m_mode, m_txwin, s_log, s_poll,
                   s_win, s_stop, s_calls>>
    /\ UNCHANGED <<nonSchedVars, loopVars>>

ListenerRuns == LoopRuns(s_listener = "started")

\* The doubling without the cap.
NextDelayUncapped(delay) == delay * 2

\* reconnect_delay = min(reconnect_delay * 2, 30)
NextDelay(delay) == IF delay * 2 < 30 THEN delay * 2 ELSE 30

\* What the loop thread leaves alone.
nonLoopVars == <<codecVars, kissVars, regVars, lsnVars, ptVars, schedVars>>

\* _listener_loop: the connection attempt succeeds, reconnect_delay is
\* reset and _process_frames starts.
LoopConnect ==
    /\ l_pc = "connect" /\ ListenerRuns
    /\ l_pc' = "read"
    /\ l_delay' = 1
    /\ l_fails' = 0
    /\ UNCHANGED <<l_wake, now, nonLoopVars>>

\* _listener_loop: the connection attempt fails, the exception is caught
\* and the loop waits reconnect_delay seconds.  A run ends LoopSpan seconds
\* after its start.
LoopConnectFails ==
    /\ l_pc = "connect" /\ ListenerRuns
    /\ now + l_delay <= ListenerT0 + LoopSpan
    /\ l_pc' = "backoff"
    /\ l_wake' = now + l_delay
    /\ l_fails' = l_fails + 1
    /\ UNCHANGED <<l_delay, now, nonLoopVars>>

\* _process_frames returns: the peer closed the connection, recv failed, or
\* the listener was stopped.  The loop waits reconnect_delay seconds unless
\* the listener was stopped.
LoopSessionEnds ==
    /\ l_pc = "read"
    /\ IF ListenerRuns
       THEN /\ now + l_delay <= ListenerT0 + LoopSpan
            /\ l_pc' = "backoff"
            /\ l_wake' = now + l_delay
            /\ l_fails' = l_fails + 1
            /\ UNCHANGED l_delay
       ELSE /\ l_pc' = "exited"
            /\ l_delay' = 1 /\ l_wake' = 0 /\ l_fails' = 0
    /\ UNCHANGED <<now, nonLoopVars>>

\* _stop_event.wait(reconnect_delay) returns, after reconnect_delay seconds
\* or when the event is set; the delay is doubled and the loop tests its
\* condition.
LoopBackoffOver ==
    /\ l_pc = "backoff"
    /\ IF ListenerRuns
       THEN /\ now >= l_wake
            /\ l_pc' = "connect"
            /\ l_delay' = NextDelay(l_delay)
            /\ UNCHANGED <<l_wake, l_fails>>
       ELSE /\ l_pc' = "exited"
            /\ l_delay' = 1 /\ l_wake' = 0 /\ l_fails' = 0
    /\ UNCHANGED <<now, nonLoopVars>>

\* The test of the while loop fails.
LoopExit ==
    /\ l_pc = "connect" /\ ~ListenerRuns
    /\ l_pc' = "exited"
    /\ l_delay' = 1 /\ l_wake' = 0 /\ l_fails' = 0
    /\ UNCHANGED <<now, nonLoopVars>>

\* A second of the wait passes.
LoopTick ==
    /\ l_pc = "backoff" /\ now < l_wake
    /\ now' = now + 1
    /\ UNCHANGED <<loopVars, nonLoopVars>>

\* BeaconListener.stop
LoopStop ==
    /\ s_listener = "started"
    /\ s_listener' = "stopped"
    /\ UNCHANGED <<s_cfg, s_env, s_clock, s_horizon, s_running, s_pc, s_wake,
                   s_current_mode, m_mode, m_txwin, s_log, s_poll, s_win,
                   s_ret, s_stop, s_calls>>
    /\ UNCHANGED <<loopVars, nonSchedVars>>

\* The listener thread after stop(); before it, with the KISS port open.
LoopThreadNext ==
    LoopConnect \/ LoopSessionEnds \/ LoopBackoffOver \/ LoopExit

LoopNext ==
    \/ LoopConnect
    \/ LoopConnectFails
    \/ LoopSessionEnds
    \/ LoopBackoffOver
    \/ LoopExit
    \/ LoopTick
    \/ LoopStop

\* time.sleep(tx_delay) has returned and the scheduler thread leaves the
\* listen-before-transmit delay; SchedAfterTxDelay is the only step from
\* "tx_delay" to "wait".
SchedTxDelayOver ==
    /\ s_pc = "tx_delay" /\ s_clock >= s_wake
    /\ s_pc' = "wait"

\* _stop_event.wait(1.0) has returned and the scheduler thread makes a pass
\* of its loop; SchedPoll is the only step that sets the wake-up time of a
\* waiting thread.
SchedPollDue ==
    /\ LoopRuns(s_running) /\ s_pc = "wait" /\ s_clock >= s_wake
    /\ s_wake' \in {s_clock + 1, s_clock + s_cfg.beacon_tx_delay_sec}

(***************************************************************************)
(* BeaconScheduler.get_status                                              *)
(***************************************************************************)
MinOf(S) == CHOOSE x \in S : \A y \in S : x <= y
Day(t) == t \div 86400

\* get_status: next_beacon, as seconds since the epoch.  now.replace keeps
\* the date of now; tomorrow is now + timedelta(days=1).
NextBeacon(cfg, t) ==
    IF cfg.beacon_minutes # <<>>
    THEN LET later == {cfg.beacon_minutes[i] : i \in DOMAIN cfg.beacon_minutes}
                          \cap {x \in 0..59 : x > Minute(t)}
         IN  IF later # {}
             THEN ClockAt(Day(t), Hour(t), MinOf(later), 0)
             ELSE ClockAt(Day(t), (Hour(t) + 1) % 24, cfg.beacon_minutes[1],
                          0)
    ELSE LET later == {h \in {cfg.beacon_hours_utc[i] :
                                  i \in DOMAIN cfg.beacon_hours_utc} :
                          \/ h > Hour(t)
                          \/ h = Hour(t) /\ Minute(t) < cfg.beacon_minute}
         IN  IF later # {}
             THEN ClockAt(Day(t), MinOf(later), cfg.beacon_minute, 0)
             ELSE ClockAt(Day(t) + 1, cfg.beacon_hours_utc[1],
                          cfg.beacon_minute, 0)

\* What the modem may answer to the three commands of get_status.
StatusAnswers(env) ==
    [status_ok : Oks(env), chan_ok : Oks(env),
     lvl : IF env.coop THEN {Some(-20)} ELSE {None, Some(-20)}]

\* BeaconScheduler.get_status: the next window, tnc.get_status(),
\* is_channel_clear() and get_rx_level(); the peers are those of
\* SchedGetPeers.
SchedGetStatus ==
    /\ s_stop = None /\ s_calls < MaxCalls
    /\ s_calls' = s_calls + 1
    /\ \E o \in StatusAnswers(s_env) :
         s_log' = <<Event("STATUS", m_mode, o.status_ok),
                    Event("STATUS",
                          IF ~o.chan_ok THEN "fail"
                          ELSE IF s_env.clear THEN "CLEAR" ELSE "BUSY",
                          o.chan_ok),
                    Event("LEVELS", o.lvl, o.lvl # None)>>
    /\ s_ret' = Ret("get_status",
                    [running |-> s_running,
                     current_mode |-> s_current_mode,
                     next_beacon_utc |-> NextBeacon(s_cfg, s_clock)],
                    m_mode)
    /\ UNCHANGED <<s_cfg, s_env, s_clock, s_horizon, s_running, s_pc, s_wake,
                   s_current_mode, s_listener, m_mode, m_txwin, s_poll, s_win,
                   s_stop>>
    /\ UNCHANGED <<nonSchedVars, loopVars>>

\* Schedules by the hour and by the minute, in ascending order and not, and
\* one with both lists; times before the end of an hour and of the day.
StatusConfigs ==
    {Station,
     [Station EXCEPT !.beacon_hours_utc = <<18, 6>>, !.beacon_minute = 30],
     [Station EXCEPT !.beacon_minutes = <<0, 30>>],
     [Station EXCEPT !.beacon_minutes = <<45, 15>>],
     [Station EXCEPT !.beacon_minutes = <<15>>,
                     !.beacon_hours_utc = <<12>>]}

StatusStarts ==
    {RunClock(23, 59, 59), RunClock(5, 59, 59), RunClock(12, 14, 59),
     RunClock(12, 29, 59), RunClock(18, 44, 59), RunClock(6, 29, 59)}

StatusInit ==
    /\ \E cfg \in StatusConfigs, t \in StatusStarts, env \in LifeEnvs :
         /\ s_cfg = cfg
         /\ s_env = env
         /\ s_clock = t
         /\ s_horizon = t + StatusSpan
    /\ s_running = FALSE
    /\ s_pc = "off"
    /\ s_wake = 0
    /\ s_current_mode = ARQ
    /\ s_listener = "stopped"
    /\ m_mode = DATAC1
    /\ m_txwin = 0
    /\ s_log = <<>>
    /\ s_poll = None
    /\ s_win = NoWindow
    /\ s_ret = None
    /\ s_stop = None
    /\ s_calls = 0
    /\ s_old = None
    /\ s_force = None
    /\ LoopOff

StatusNext ==
    \/ SchedGetStatus
    \/ SchedTick

\* The loop over one short window of the by-minute schedule, with
\* get_status() calls: every operating mode, transmission on and off, the
\* oddities, a configuration with both schedule lists, whose by-hour
\* list names the hour of the run and whose by-minute list its second
\* minute only, and one whose delay before transmitting is as long as the
\* window.
BothLists == [ByMinute EXCEPT !.beacon_minutes = <<1>>,
                              !.beacon_hours_utc = <<12>>]

\* A listen-before-transmit delay as long as the beacon window.
LongDelay == [ByMinute EXCEPT !.beacon_tx_delay_sec = 3]

WindowRuns ==
    {[cfg |-> c, start |-> t, span |-> WindowSpan] :
        c \in {v \in Variants(ByMinute) : ~v.adaptive_mode}
                 \cup Oddities(ByMinute) \cup {BothLists, LongDelay},
        t \in {RunClock(11, 59, 59), RunClock(12, 0, 58)}}

WindowInit ==
    /\ \E r \in WindowRuns, env \in Envs :
         /\ s_cfg = r.cfg
         /\ s_env = env
         /\ s_clock = r.start
         /\ s_horizon = r.start + r.span
    /\ s_running = FALSE
    /\ s_pc = "off"
    /\ s_wake = 0
    /\ s_current_mode = ARQ
    /\ s_listener = "stopped"
    /\ m_mode = DATAC1
    /\ m_txwin = 0
    /\ s_log = <<>>
    /\ s_poll = None
    /\ s_win = NoWindow
    /\ s_ret = None
    /\ s_stop = None
    /\ s_calls = 0
    /\ s_old = None
    /\ s_force = None
    /\ LoopOff

WindowNext ==
    \/ SchedStart
    \/ SchedPoll
    \/ SchedAfterTxDelay
    \/ SchedTick
    \/ SchedGetStatus

(***************************************************************************)
(* force_beacon() next to the running loop.  The call sleeps twice for     *)
(* half a second, and the scheduler thread runs during both sleeps: the    *)
(* call is three steps, up to the first sleep, _transmit_beacon, and from  *)
(* the end of the second sleep to the return.  A call made in second t     *)
(* transmits in second t or t + 1 and returns in second t + 1.             *)
(***************************************************************************)
\* force_beacon up to time.sleep(0.5): ret is the value returned, if the
\* call returns before the sleep.
ForceBeaconBegin(cfg, st, o) ==
    IF ~cfg.tx_beacon
    THEN [st |-> st, ret |-> Some(FALSE), original_mode |-> None]
    ELSE LET original_mode == GetMode(st, o.status_ok)
             st1 == Logged(st, "STATUS", st.m_mode, o.status_ok)
             st2 == SetMode(st1, cfg.beacon_mode, o.mode_ok)
         IN  [st |-> st2,
              ret |-> IF o.mode_ok THEN None ELSE Some(FALSE),
              original_mode |-> original_mode]

\* force_beacon after the second time.sleep(0.5).
ForceBeaconEnd(st, original_mode, restore_ok) ==
    [st |-> IF original_mode # None
            THEN SetMode(st, original_mode[1], restore_ok)
            ELSE st,
     ret |-> TRUE]

\* A run starts a second before the window of minute 0: hybrid mode with
\* transmission on, with and without the adaptive step, and the two
\* station identities that _transmit_beacon refuses.
ForceRuns ==
    {[cfg |-> c, start |-> RunClock(11, 59, 59), span |-> ForceSpan] :
        c \in {v \in Variants(ByMinute) :
                    v.tx_beacon /\ v.operating_mode = "hybrid"}
                 \cup {v \in Oddities(ByMinute) : v.auto_switch}}

ForceInit ==
    /\ \E r \in ForceRuns, env \in LifeEnvs :
         /\ s_cfg = r.cfg
         /\ s_env = env
         /\ s_clock = r.start
         /\ s_horizon = r.start + r.span
    /\ s_running = FALSE
    /\ s_pc = "off"
    /\ s_wake = 0
    /\ s_current_mode = ARQ
    /\ s_listener = "stopped"
    /\ m_mode = DATAC1
    /\ m_txwin = 0
    /\ s_log = <<>>
    /\ s_poll = None
    /\ s_win = NoWindow
    /\ s_ret = None
    /\ s_stop = None
    /\ s_calls = 0
    /\ s_old = None
    /\ s_force = None
    /\ LoopOff

\* force_beacon() is called and reaches its first sleep, or returns False.
SchedForceCall ==
    /\ s_force = None /\ s_stop = None /\ s_calls < MaxCalls
    /\ s_calls' = s_calls + 1
    /\ \E status_ok \in Oks(s_env), mode_ok \in Oks(s_env) :
       \E r \in {ForceBeaconBegin(s_cfg, SchedState,
                                   [status_ok |-> status_ok,
                                    mode_ok |-> mode_ok])} :
           /\ m_mode' = r.st.m_mode
           /\ s_log' = r.st.log
           /\ s_ret' = IF r.ret # None
                       THEN Ret("force_beacon", r.ret[1], m_mode)
                       ELSE None
           /\ s_force' = IF r.ret # None
                         THEN None
                         ELSE Some([pc |-> "settle",
                                    original_mode |-> r.original_mode,
                                    was |-> m_mode,
                                    running |-> s_running,
                                    since |-> s_clock])
    /\ UNCHANGED <<s_cfg, s_env, s_clock, s_horizon, s_running, s_pc, s_wake,
                   s_current_mode, s_listener, m_txwin, s_poll, s_win,
                   s_stop>>
    /\ UNCHANGED <<otherVars, s_old, loopVars>>

\* The first sleep is over: _transmit_beacon().
SchedForceTransmit ==
    /\ s_force # None /\ s_force[1].pc = "settle"
    /\ s_clock <= s_force[1].since + 1
    /\ \E send_ok \in Oks(s_env) :
         s_log' = s_log \o TransmitEvents(s_cfg, s_clock)[send_ok]
    /\ s_force' = Some([s_force[1] EXCEPT !.pc = "sent"])
    /\ s_ret' = None
    /\ UNCHANGED <<s_cfg, s_env, s_clock, s_horizon, s_running, s_pc, s_wake,
                   s_current_mode, s_listener, m_mode, m_txwin, s_poll,
                   s_win, s_stop, s_calls>>
    /\ UNCHANGED <<otherVars, s_old, loopVars>>

\* The second sleep is over: the mode is restored and the call returns.
SchedForceReturn ==
    /\ s_force # None /\ s_force[1].pc = "sent"
    /\ s_clock = s_force[1].since + 1
    /\ \E restore_ok \in Oks(s_env) :
       \E r \in {ForceBeaconEnd([SchedState EXCEPT !.log = s_log],
                                 s_force[1].original_mode, restore_ok)} :
           /\ m_mode' = r.st.m_mode
           /\ s_log' = r.st.log
           /\ s_ret' = Ret("force_beacon", r.ret, s_force[1].was)
    /\ s_force' = None
    /\ UNCHANGED <<s_cfg, s_env, s_clock, s_horizon, s_running, s_pc, s_wake,
                   s_current_mode, s_listener, m_txwin, s_poll, s_win,
                   s_stop, s_calls>>
    /\ UNCHANGED <<otherVars, s_old, loopVars>>

\* A second passes; a call of force_beacon() returns within the second
\* after the one it was made in.
ForceTick ==
    /\ s_force # None => s_clock < s_force[1].since + 1
    /\ SchedTick

ForceNext ==
    \/ SchedStart
    \/ SchedPoll
    \/ SchedAfterTxDelay
    \/ SchedForceCall
    \/ SchedForceTransmit
    \/ SchedForceReturn
    \/ ForceTick

(***************************************************************************)
(* start() after a stop() whose join timed out.  s_pc and s_wake describe  *)
(* one scheduler thread, s_old the other one; SchedSwitch exchanges them,  *)
(* so that the steps of the thread apply to either.  The calls are made    *)
(* while s_pc describes the thread self._scheduler_thread refers to.       *)
(***************************************************************************)
Alive(pc) == pc \in {"wait", "tx_delay"}
FocusNewest == IF s_old = None THEN TRUE ELSE ~s_old[1].newest

\* BeaconScheduler.start while the thread of an earlier start() has not
\* exited: running is set, the event cleared and a new thread started; the
\* earlier thread is still inside _scheduler_loop.
SchedRestart ==
    /\ ~s_running /\ s_stop = None /\ s_calls < MaxCalls
    /\ Alive(s_pc) /\ s_old = None /\ l_pc \in {"off", "exited"}
    /\ \E ping_ok \in Oks(s_env), mode_ok \in Oks(s_env) :
         LET st0 == Logged(SchedState, "PING", <<>>, ping_ok)
             st1 == IF ping_ok THEN SetMode(st0, s_cfg.arq_mode, mode_ok)
                    ELSE st0
             started == StartProceeds(ping_ok, mode_ok)
         IN  /\ m_mode' = st1.m_mode
             /\ s_log' = st1.log
             /\ s_running' = started
             /\ s_old' = IF started
                         THEN Some([pc |-> s_pc, wake |-> s_wake,
                                    newest |-> FALSE])
                         ELSE s_old
             /\ s_pc' = IF started THEN "wait" ELSE s_pc
             /\ s_wake' = IF started THEN s_clock ELSE s_wake
             /\ s_listener' = IF started THEN "started" ELSE s_listener
             /\ l_pc' = IF started THEN "connect" ELSE l_pc
             /\ l_delay' = IF started THEN 1 ELSE l_delay
             /\ l_wake' = IF started THEN 0 ELSE l_wake
             /\ l_fails' = IF started THEN 0 ELSE l_fails
             /\ s_ret' = Ret("start", started, None)
    /\ s_poll' = None
    /\ s_calls' = s_calls + 1
    /\ UNCHANGED <<s_cfg, s_env, s_clock, s_horizon, s_current_mode, m_txwin,
                   s_win, s_stop, s_force>>
    /\ UNCHANGED otherVars

\* The other scheduler thread is the one whose steps follow.
SchedSwitch ==
    /\ s_old # None
    /\ s_pc' = s_old[1].pc
    /\ s_wake' = s_old[1].wake
    /\ s_old' = Some([pc |-> s_pc, wake |-> s_wake,
                      newest |-> ~s_old[1].newest])
    /\ s_ret' = None
    /\ UNCHANGED <<s_cfg, s_env, s_clock, s_horizon, s_running,
                   s_current_mode, s_listener, m_mode, m_txwin, s_log,
                   s_poll, s_win, s_stop, s_calls, s_force>>
    /\ UNCHANGED <<otherVars, loopVars>>

\* A run from a second before the daily window, with the default delay
\* before the transmission.
RestartRuns ==
    {[cfg |-> [Daily EXCEPT !.beacon_tx_delay_sec =
                                DefaultConfig.beacon_tx_delay_sec],
      start |-> RunClock(23, 59, 59), span |-> LifeSpan]}

RestartInit ==
    /\ \E r \in RestartRuns, env \in LifeEnvs :
         /\ s_cfg = r.cfg
         /\ s_env = env
         /\ s_clock = r.start
         /\ s_horizon = r.start + r.span
    /\ s_running = FALSE
    /\ s_pc = "off"
    /\ s_wake = 0
    /\ s_current_mode = ARQ
    /\ s_listener = "stopped"
    /\ m_mode = DATAC1
    /\ m_txwin = 0
    /\ s_log = <<>>
    /\ s_poll = None
    /\ s_win = NoWindow
    /\ s_ret = None
    /\ s_stop = None
    /\ s_calls = 0
    /\ s_old = None
    /\ s_force = None
    /\ LoopOff

RestartCalls ==
    /\ FocusNewest
    /\ \/ SchedStart
       \/ SchedRestart
       \/ SchedStopBegin
       \/ SchedStopEnd

RestartNext ==
    \/ RestartCalls
    \/ SchedSwitch
    \/ SchedPoll
    \/ SchedAfterTxDelay
    \/ SchedLoopExit
    \/ SchedTick
    \/ SchedTickLate
    \/ LoopExit

(***************************************************************************)
(* Callbacks that raise.  on_mode_change and on_beacon_tx are called with   *)
(* no try around them, in the scheduler thread; an event with ok = FALSE is *)
(* a callback that raised.                                                 *)
(***************************************************************************)
\* _enter_beacon_mode up to the call of on_mode_change, which raises.
EnterBeaconModeRaises(cfg, st, o, tpoll) ==
    LET st1 == IF cfg.operating_mode = "hybrid"
               THEN TxWindow(st, cfg.beacon_duration_sec, o.txwin_ok, tpoll)
               ELSE st
        st2 == SetMode(st1, cfg.beacon_mode, TRUE)
    IN  [Logged(st2, "mode_change", <<BEACON, cfg.beacon_mode>>, FALSE)
            EXCEPT !.current_mode = BEACON, !.w = TallyEntry(@, tpoll)]

\* _enter_arq_mode up to the call of on_mode_change, which raises.
EnterArqModeRaises(cfg, st) ==
    [Logged(SetMode(st, cfg.arq_mode, TRUE), "mode_change",
            <<ARQ, cfg.arq_mode>>, FALSE)
        EXCEPT !.current_mode = ARQ]

\* _transmit_beacon up to the call of on_beacon_tx, which raises; the frame
\* was sent.
TransmitBeaconRaises(cfg, st, tnow) ==
    LET packet == BeaconPacket(FromHex(cfg.station_id)[1], FLAG_ACCEPTS_LINKS,
                               cfg.beacon_message, None, U32Of(tnow))
        frame == KissFrame(Encode(packet))
        sent == Logged(st, "FRAME", frame, TRUE)
    IN  [Logged(sent, "beacon_tx", packet, FALSE) EXCEPT
            !.w = [@ EXCEPT !.frames = @ + 1, !.notes = @ + 1,
                            !.frame = Some(frame)]]

\* A pass of _scheduler_loop in which the modem accepts the MODE command of
\* the transition and on_mode_change raises: the exception leaves
\* _scheduler_loop and ends the thread.
SchedPollRaises ==
    /\ LoopRuns(s_running) /\ s_pc = "wait" /\ s_clock >= s_wake
    /\ LET in_window == InBeaconWindow(s_cfg, s_clock)
           entering == NeedsEntry(in_window, s_current_mode)
           leaving == NeedsExit(in_window, s_current_mode)
           commands == entering /\ ~SkipsBeaconWindow(s_cfg)
       IN  /\ commands \/ leaving
           /\ \E o \in SwitchAnswers(
                          s_env, commands /\ s_cfg.operating_mode = "hybrid",
                          FALSE) :
              \E st1 \in {IF entering
                           THEN EnterBeaconModeRaises(s_cfg, SchedState, o,
                                                      s_clock)
                           ELSE EnterArqModeRaises(s_cfg, SchedState)} :
                  /\ s_poll' = Some([time |-> s_clock,
                                     in_window |-> in_window])
                  /\ s_current_mode' = st1.current_mode
                  /\ m_mode' = st1.m_mode
                  /\ m_txwin' = st1.m_txwin
                  /\ s_log' = st1.log
                  /\ s_win' = st1.w
    /\ s_pc' = "raised"
    /\ s_wake' = 0
    /\ s_ret' = None
    /\ UNCHANGED <<s_cfg, s_env, s_clock, s_horizon, s_running, s_listener,
                   s_stop, s_calls>>
    /\ UNCHANGED <<nonSchedVars, loopVars>>

\* The rest of _enter_beacon_mode after the sleep when the channel is clear,
\* the frame is sent and on_beacon_tx raises.
SchedAfterTxDelayRaises ==
    /\ s_pc = "tx_delay" /\ s_clock >= s_wake
    /\ s_cfg.station_id # <<>> /\ FromHex(s_cfg.station_id) # None
    /\ \E st1 \in {TransmitBeaconRaises(
                        s_cfg,
                        Logged([SchedState EXCEPT !.log = s_log], "STATUS",
                               "CLEAR", TRUE),
                        s_clock)} :
           /\ s_log' = st1.log
           /\ s_win' = st1.w
    /\ s_pc' = "raised"
    /\ s_wake' = 0
    /\ s_ret' = None
    /\ UNCHANGED <<s_cfg, s_env, s_clock, s_horizon, s_running, s_listener,
                   s_current_mode, m_mode, m_txwin, s_poll, s_stop, s_calls>>
    /\ UNCHANGED <<nonSchedVars, loopVars>>

\* A run over one short window, from a second before it to after its end;
\* the callbacks are registered and may raise.
NotifyRuns ==
    {[cfg |-> [ByMinute EXCEPT !.tx_beacon = tx],
      start |-> RunClock(5, 59, 59), span |-> NotifySpan] : tx \in BOOLEAN}

NotifyInit ==
    /\ \E r \in NotifyRuns, env \in Envs :
         /\ s_cfg = r.cfg
         /\ s_env = env
         /\ s_clock = r.start
         /\ s_horizon = r.start + r.span
    /\ s_running = FALSE
    /\ s_pc = "off"
    /\ s_wake = 0
    /\ s_current_mode = ARQ
    /\ s_listener = "stopped"
    /\ m_mode = DATAC1
    /\ m_txwin = 0
    /\ s_log = <<>>
    /\ s_poll = None
    /\ s_win = NoWindow
    /\ s_ret = None
    /\ s_stop = None
    /\ s_calls = 0
    /\ s_old = None
    /\ s_force = None
    /\ LoopOff

NotifyNext ==
    \/ SchedStart
    \/ SchedPoll
    \/ SchedPollRaises
    \/ SchedAfterTxDelay
    \/ SchedAfterTxDelayRaises
    \/ SchedTick

\* A run starts a second before the daily window; transmission is on or
\* off.
LifeRuns ==
    {[cfg |-> [Daily EXCEPT !.tx_beacon = tx],
      start |-> RunClock(23, 59, 59), span |-> LifeSpan] : tx \in BOOLEAN}

LifeInit ==
    /\ \E r \in LifeRuns, env \in LifeEnvs :
         /\ s_cfg = r.cfg
         /\ s_env = env
         /\ s_clock = r.start
         /\ s_horizon = r.start + r.span
    /\ s_running = FALSE
    /\ s_pc = "off"
    /\ s_wake = 0
    /\ s_current_mode = ARQ
    /\ s_listener = "stopped"
    /\ m_mode = DATAC1
    /\ m_txwin = 0
    /\ s_log = <<>>
    /\ s_poll = None
    /\ s_win = NoWindow
    /\ s_ret = None
    /\ s_stop = None
    /\ s_calls = 0
    /\ s_old = None
    /\ s_force = None
    /\ LoopOff

LifeNext ==
    \/ SchedStart
    \/ SchedStartRunning
    \/ SchedStopBegin
    \/ SchedStopEnd
    \/ SchedForceBeacon
    \/ SchedPoll
    \/ SchedAfterTxDelay
    \/ SchedLoopExit
    \/ SchedTick
    \/ SchedTickLate

\* The calls of the BeaconScheduler that reach the modem, next to its loop;
\* get_peers() and clear_peers() are steps of ListenerNext, where the
\* registry has entries.
ApiNext ==
    \/ LifeNext
    \/ SchedGetStatus
    \/ LoopExit

\* start() and stop() with the two threads; transmission is on.
StopInit ==
    /\ \E r \in {x \in LifeRuns : x.cfg.tx_beacon}, env \in LifeEnvs :
         /\ s_cfg = r.cfg
         /\ s_env = env
         /\ s_clock = r.start
         /\ s_horizon = r.start + r.span
    /\ s_running = FALSE
    /\ s_pc = "off"
    /\ s_wake = 0
    /\ s_current_mode = ARQ
    /\ s_listener = "stopped"
    /\ m_mode = DATAC1
    /\ m_txwin = 0
    /\ s_log = <<>>
    /\ s_poll = None
    /\ s_win = NoWindow
    /\ s_ret = None
    /\ s_stop = None
    /\ s_calls = 0
    /\ s_old = None
    /\ s_force = None
    /\ LoopOff

StopNext ==
    \/ SchedStart
    \/ SchedStopBegin
    \/ SchedStopEnd
    \/ SchedPoll
    \/ SchedAfterTxDelay
    \/ SchedLoopExit
    \/ SchedTick
    \/ SchedTickLate
    \/ LoopConnect
    \/ LoopSessionEnds
    \/ LoopBackoffOver
    \/ LoopExit

InitWire ==
    WireStart /\ KissIdle /\ ListenerStart /\ RegistryStart /\ SchedIdle

SpecWire == InitWire /\ [][WireNext]_vars

InitStream ==
    StreamStart /\ CodecIdle /\ ListenerStart /\ RegistryStart /\ SchedIdle

SpecStream == InitStream /\ [][StreamNext]_vars

InitCodec ==
    CodecStart /\ KissIdle /\ ListenerStart /\ RegistryStart /\ SchedIdle

SpecCodec == InitCodec /\ [][CodecNext]_vars

InitKiss ==
    KissStart /\ CodecIdle /\ ListenerStart /\ RegistryStart /\ SchedIdle

SpecKiss == InitKiss /\ [][KissNext]_vars

InitListener ==
    ListenerStart /\ CodecIdle /\ KissIdle /\ RegistryStart /\ SchedIdle

SpecListener == InitListener /\ [][ListenerNext]_vars

InitRegistry ==
    RegistryStart /\ CodecIdle /\ KissIdle /\ ListenerStart /\ SchedIdle

SpecRegistry == InitRegistry /\ [][RegistryNext]_vars

InitSched ==
    SchedInit /\ CodecIdle /\ KissIdle /\ ListenerStart /\ RegistryStart

SpecSched == InitSched /\ [][SchedNext]_vars

InitLife ==
    LifeInit /\ CodecIdle /\ KissIdle /\ ListenerStart /\ RegistryStart

SpecLife == InitLife /\ [][LifeNext]_vars

InitStop ==
    StopInit /\ CodecIdle /\ KissIdle /\ ListenerStart /\ RegistryStart

SpecStop == InitStop /\ [][StopNext]_vars

InitLoop ==
    /\ CodecIdle /\ KissIdle /\ ListenerStart /\ RegistryStart
    /\ s_cfg = Station
    /\ s_env = [coop |-> TRUE, clear |-> TRUE]
    /\ s_clock = RunClock(0, 0, 0)
    /\ s_horizon = RunClock(0, 0, 0)
    /\ s_running = TRUE
    /\ s_pc = "wait"
    /\ s_wake = 0
    /\ s_current_mode = ARQ
    /\ s_listener = "started"
    /\ m_mode = DATAC1
    /\ m_txwin = 0
    /\ s_log = <<>>
    /\ s_poll = None
    /\ s_win = NoWindow
    /\ s_ret = None
    /\ s_stop = None
    /\ s_calls = 0
    /\ s_old = None
    /\ s_force = None
    /\ l_pc = "connect" /\ l_delay = 1 /\ l_wake = 0 /\ l_fails = 0

SpecLoop == InitLoop /\ [][LoopNext]_vars

InitStatus ==
    StatusInit /\ CodecIdle /\ KissIdle /\ ListenerStart /\ RegistryStart

SpecStatus == InitStatus /\ [][StatusNext]_vars

InitWindow ==
    WindowInit /\ CodecIdle /\ KissIdle /\ ListenerStart /\ RegistryStart

SpecWindow == InitWindow /\ [][WindowNext]_vars

InitForce ==
    ForceInit /\ CodecIdle /\ KissIdle /\ ListenerStart /\ RegistryStart

SpecForce == InitForce /\ [][ForceNext]_vars

SpecApi == InitStop /\ [][ApiNext]_vars

InitRestart ==
    RestartInit /\ CodecIdle /\ KissIdle /\ ListenerStart /\ RegistryStart

SpecRestart == InitRestart /\ [][RestartNext]_vars

InitNotify ==
    NotifyInit /\ CodecIdle /\ KissIdle /\ ListenerStart /\ RegistryStart

SpecNotify == InitNotify /\ [][NotifyNext]_vars

\* The wait on the stop event ends when its time is over.
SpecLoopFair ==
    /\ SpecLoop
    /\ WF_vars(LoopTick)
    /\ WF_vars(LoopBackoffOver)

\* The threads are scheduled and time passes.
SpecStopFair ==
    /\ SpecStop
    /\ WF_s_pc(SchedTxDelayOver)
    /\ WF_vars(SchedLoopExit)
    /\ WF_vars(LoopThreadNext)
    /\ WF_vars(SchedTick \/ SchedTickLate)

\* The scheduler thread is scheduled and time passes.
SpecWindowFair ==
    /\ SpecWindow
    /\ WF_s_wake(SchedPollDue)
    /\ WF_s_pc(SchedTxDelayOver)
    /\ WF_vars(SchedTick)

(***************************************************************************)
(* CRC-16/CCITT (polynomial 0x1021, initial value 0xFFFF, no reflection,   *)
(* no final xor) as the bit-serial shift register of its definition: each  *)
(* message bit, most significant first, is compared with the register's    *)
(* top bit; the register shifts and, on a difference, the polynomial is    *)
(* added.                                                                  *)
(***************************************************************************)
RefCrcBit(reg, bit) ==
    LET top == (reg \div 32768) % 2
        shifted == (reg * 2) % 65536
    IN  IF top # bit THEN BitXor(shifted, 4129) ELSE shifted

RECURSIVE RefCrcBits(_, _, _)
RefCrcBits(reg, byte, k) ==
    IF k = 0 THEN reg
    ELSE RefCrcBits(RefCrcBit(reg, (byte \div (2 ^ (k - 1))) % 2), byte, k - 1)

RECURSIVE RefCrcRange(_, _, _, _)
RefCrcRange(reg, data, lo, hi) ==
    IF lo > hi THEN reg
    ELSE IF lo = hi THEN RefCrcBits(reg, data[lo], 8)
    ELSE LET left == RefCrcRange(reg, data, lo, (lo + hi) \div 2)
         IN  CASE left \in 0..65535 ->
                  RefCrcRange(left, data, ((lo + hi) \div 2) + 1, hi)

RefCrcCcitt(data) == RefCrcRange(65535, data, 1, Len(data))

\* C2: decode returns a packet only for an input of at least 26 bytes that
\* starts with the magic 'RH' and whose last two bytes, big-endian, are the
\* CRC-16/CCITT of all bytes before them; for every other input it returns
\* None.
C2_DecodeOnlyValid ==
    (c_pc = "decoded" /\ c_out # None) =>
        /\ Len(c_wire) >= 26
        /\ c_wire[1] = 82 /\ c_wire[2] = 72
        /\ c_wire[Len(c_wire) - 1] * 256 + c_wire[Len(c_wire)]
             = RefCrcCcitt(SubSeq(c_wire, 1, Len(c_wire) - 2))

\* A packet cut behind its message and resealed is decoded: the three
\* conditions hold for an input that is no encoder output.
C2_Witness ==
    c_pc = "decoded" /\ c_out # None /\ c_mut = "trunc_sealed"

\* The value the round trip is to reproduce for the harness input.
RoundTripExpected ==
    [ identity_hash |-> Ljust(Take(c_in.identity_hash, 16), 16),
      flags |-> (c_in.flags \div 2) * 2,
      message |-> c_in.message,
      timestamp |-> c_in.timestamp[1] ]

InRoundTripDomain ==
    /\ Len(c_in.identity_hash) = 0 \/ Len(c_in.identity_hash) >= 16
    /\ Len(Utf8Encode(c_in.message)) <= 20
    /\ c_in.timestamp # None

\* C3: decode(encode(packet)) yields the identity truncated/zero-padded to
\* 16 bytes, the flags with HAS_MESSAGE cleared, the message and the
\* timestamp of the input, for every identity of length 0, 16 or more,
\* every message of at most 20 bytes and every 32-bit timestamp.
C3_RoundTrip ==
    (c_pc = "decoded" /\ c_mut = "none" /\ InRoundTripDomain) =>
        c_out = Some(RoundTripExpected)

\* The round trip for the inputs whose timestamp is not 0.
C3_RoundTripNonZero ==
    (c_pc = "decoded" /\ c_mut = "none" /\ InRoundTripDomain
     /\ c_in.timestamp # Some(U32Zero)) =>
        c_out = Some(RoundTripExpected)

\* C4: a validly encoded packet with any single bit inverted is rejected
\* by decode.
C4_SingleBitFlipRejected ==
    (c_pc = "decoded" /\ c_mut = "flip") => c_out = None

\* A bit of the checksum field itself was inverted, in a packet with a
\* message, and the result was decoded.
C4_Witness ==
    /\ c_pc = "decoded" /\ c_mut = "flip" /\ c_out = None
    /\ Len(c_wire) > 26
    /\ c_wire[Len(c_wire)] # Encode(c_pkt[1])[Len(c_wire)]

EscapedHasNoFend ==
    \A i \in 3..(Len(k_frame) - 1) : k_frame[i] # KISS_FEND

\* C5 as stated: for every payload, unescaping the escaped payload of its
\* frame returns the payload, and the escaped payload holds no 0xC0.
C5_FramingRoundTripEveryPayload ==
    /\ k_pc = "unescaped" => k_out = Some(k_payload)
    /\ k_pc \in {"framed", "unescaped"} => EscapedHasNoFend

\* C5 amended: the same for every payload of at least one byte; for the
\* empty payload _unescape_kiss returns None.
C5_FramingRoundTrip ==
    /\ (k_pc = "unescaped" /\ k_payload # <<>>) => k_out = Some(k_payload)
    /\ (k_pc = "unescaped" /\ k_payload = <<>>) => k_out = None
    /\ k_pc \in {"framed", "unescaped"} => EscapedHasNoFend

\* A payload with the escape byte first, the delimiter right after it and
\* the delimiter's substitute last went through the round trip.
C5_Witness ==
    /\ k_pc = "unescaped"
    /\ k_payload = <<KISS_FESC, KISS_FEND, KISS_TFEND>>
    /\ k_out = Some(k_payload)

\* C1: the Scheduler and its Listener work on one Peer Registry: every
\* identity the Listener has recorded is in the table the Scheduler reads
\* (get_status, get_peers, clear_peers), with the same rx_count.
C1_SharedRegistry ==
    \A id \in DOMAIN tables[l_peer_table].peer :
        /\ Has(tables[SchedTable], id)
        /\ tables[SchedTable].peer[id].rx_count
             = tables[l_peer_table].peer[id].rx_count

\* A frame that is truncated, has other magic bytes or a wrong checksum.
IsMalformed(frame) ==
    \/ Len(frame) < 26
    \/ frame[1] # 82 \/ frame[2] # 72
    \/ frame[Len(frame) - 1] * 256 + frame[Len(frame)]
         # RefCrcCcitt(SubSeq(frame, 1, Len(frame) - 2))

\* C9: handling a malformed frame changes neither the Peer Registry nor
\* the notifications raised, starts no update, and leaves the Listener
\* connected with the frames behind it still to be handled; a well-formed
\* frame, also one behind a malformed frame, is never dropped.
C9_MalformedIgnored ==
    [][ (l_queue # <<>> /\ l_upd = None) =>
          IF IsMalformed(Head(l_queue))
          THEN /\ l_upd' = None
               /\ rx_notes' = rx_notes
               /\ (l_queue' # l_queue =>
                     /\ tables' = tables
                     /\ l_queue' = Tail(l_queue)
                     /\ l_conn' = l_conn)
          ELSE l_queue' = l_queue ]_vars

\* A malformed frame was dropped and the valid frame behind it in the same
\* chunk was recorded and notified.
C9_Witness ==
    /\ Len(l_hist) >= 2
    /\ l_hist[1] = "dropped" /\ l_hist[2] = "recorded"
    /\ Len(rx_notes) = 1
    /\ rx_notes[1].peer.identity_hash = IdB

\* The step is the locked section of an update call for identity id.
CommitsUpdateOf(id) ==
    \E t \in Threads :
        /\ InUpdate(t)
        /\ pt_thr'[t] = None
        /\ pt_thr[t][1].packet.identity_hash = id

\* C10: an update of a peer that is in the registry adds exactly 1 to its
\* rx_count and does not decrease its last_seen, whichever thread makes it;
\* no step changes the first_seen of a peer that stays in the registry.
C10_UpdateMonotone ==
    [][\A id \in DOMAIN pt_table.peer \cap DOMAIN pt_table'.peer :
          /\ pt_table'.peer[id].first_seen = pt_table.peer[id].first_seen
          /\ CommitsUpdateOf(id) =>
                /\ pt_table'.peer[id].rx_count
                     = pt_table.peer[id].rx_count + 1
                /\ pt_table'.peer[id].last_seen
                     >= pt_table.peer[id].last_seen]_vars

\* The parts of C10 about rx_count and first_seen alone.
C10_CountAndFirstSeen ==
    [][\A id \in DOMAIN pt_table.peer \cap DOMAIN pt_table'.peer :
          /\ pt_table'.peer[id].first_seen = pt_table.peer[id].first_seen
          /\ CommitsUpdateOf(id) =>
                pt_table'.peer[id].rx_count
                  = pt_table.peer[id].rx_count + 1]_vars

\* A peer whose last_seen lies before its first_seen: an update that read
\* the clock first and took the lock last.
C10_LastSeenBeforeFirstSeen ==
    \E id \in DOMAIN pt_table.peer :
        pt_table.peer[id].last_seen < pt_table.peer[id].first_seen

\* The positions of the events of one kind in the log of the last pass.
Events(kind) == {i \in DOMAIN s_log : s_log[i].kind = kind}

\* The packet a KISS frame carries, as the receiving side decodes it.
FramePacket(frame) == Decode(UnescapeKiss(Between(frame))[1], U32Zero)

\* Transmission is enabled, the station identity is configured, the modem
\* answers every command with OK and the channel is clear.
C6_Case ==
    /\ s_cfg.tx_beacon
    /\ s_cfg.station_id = StationHex
    /\ s_env.coop /\ s_env.clear

\* C6: under C6_Case a window in which the scheduler entered BEACON is
\* entered once; after the listen-before-transmit delay it has produced
\* exactly one frame, which carries the configured identity and message,
\* and exactly one beacon-transmitted notification, and no later poll adds
\* another; before the delay is over it has produced none.
C6_OneBeaconPerWindow ==
    (C6_Case /\ s_win.entries > 0) =>
        /\ s_win.entries = 1
        /\ IF s_pc = "tx_delay"
           THEN s_win.frames = 0 /\ s_win.notes = 0
           ELSE /\ s_win.frames = 1 /\ s_win.notes = 1
                /\ FramePacket(s_win.frame[1]) # None
                /\ FramePacket(s_win.frame[1])[1].identity_hash = IdA
                /\ FramePacket(s_win.frame[1])[1].message = StationMessage

\* A poll inside the window found the mode BEACON, after the one frame of
\* the window had gone out, and did nothing.
C6_Witness ==
    /\ C6_Case
    /\ s_win.entries = 1 /\ s_win.frames = 1 /\ s_win.notes = 1
    /\ s_pc = "wait" /\ s_current_mode = BEACON
    /\ s_poll # None /\ s_poll[1].in_window
    /\ WindowId(s_poll[1].time) = s_win.id
    /\ s_log = <<>>

\* The seconds of the day at which a window of the hour-based strategy is
\* scheduled to start.
ScheduledStarts(cfg) ==
    {cfg.beacon_hours_utc[i] * 3600 + cfg.beacon_minute * 60 :
        i \in DOMAIN cfg.beacon_hours_utc}

\* t lies less than beacon_duration_sec seconds after a scheduled start.
OpenForDuration(cfg, t) ==
    \E start \in ScheduledStarts(cfg) :
        ((t % 86400) + 86400 - start) % 86400 < cfg.beacon_duration_sec

\* C7: with the hour-based strategy the window predicate the loop evaluates
\* is true exactly during the beacon_duration_sec seconds that follow a
\* scheduled start (with a duration of 120: true at 06:00:00 and 06:01:59,
\* false at 06:02:00).
C7_WindowOpenForDuration ==
    (s_poll # None /\ s_cfg.beacon_minutes = <<>> /\ s_cfg.auto_switch) =>
        s_poll[1].in_window = OpenForDuration(s_cfg, s_poll[1].time)

\* The loop with the default schedule polled at 06:01:59 and found the
\* window closed.
C7_ClosedAt060159 ==
    /\ s_cfg.beacon_hours_utc = <<0, 6, 12, 18>>
    /\ s_cfg.beacon_minute = 0 /\ s_cfg.beacon_duration_sec = 120
    /\ s_cfg.beacon_minutes = <<>> /\ s_cfg.auto_switch
    /\ s_poll = Some([time |-> RunClock(6, 1, 59), in_window |-> FALSE])

\* The last pass of the loop was made inside a matching beacon window with
\* operating_mode internet_only.
C8_Case ==
    /\ s_cfg.operating_mode = "internet_only"
    /\ s_poll # None /\ s_poll[1].in_window

\* C8 as stated: in such a pass the loop issues no MODE command and no
\* TX WINDOW, sends no frame, raises no mode-change notification, and
\* current_mode stays ARQ.
C8_InternetOnlyNoModeSwitch ==
    C8_Case =>
        /\ Events("MODE") = {}
        /\ Events("TX WINDOW") = {}
        /\ Events("FRAME") = {}
        /\ Events("mode_change") = {}
        /\ s_current_mode = ARQ

\* C8 amended: in such a pass the loop issues no TX WINDOW, sends no frame,
\* raises no mode-change notification and current_mode stays ARQ; with
\* adaptive_mode off it issues no MODE command, and with adaptive_mode on
\* at most one, that of the adaptive step, to DATAC3 or DATAC1.
C8_InternetOnlyNoBeacon ==
    C8_Case =>
        /\ Events("TX WINDOW") = {}
        /\ Events("FRAME") = {}
        /\ Events("mode_change") = {}
        /\ s_current_mode = ARQ
        /\ Cardinality(Events("MODE")) <= 1
        /\ \A i \in Events("MODE") :
              /\ s_cfg.adaptive_mode
              /\ Events("LEVELS") # {}
              /\ s_log[i].what \in {DATAC3, DATAC1}

\* Inside a window, with transmission enabled and adaptive_mode on, the
\* pass skipped the beacon and its adaptive step switched the modem.
C8_Witness ==
    /\ C8_Case
    /\ s_cfg.tx_beacon /\ s_cfg.adaptive_mode
    /\ s_log # <<>>
    /\ s_log[Len(s_log)] = Event("MODE", DATAC3, TRUE)
    /\ m_mode = DATAC3

\* C11: an update of a peer that is in the registry leaves it with the
\* message and the flags of the packet of that update, also when the
\* packet's message is empty.
C11_UpdateReplacesMessageAndFlags ==
    [][\A t \in Threads :
          (/\ InUpdate(t)
           /\ pt_thr'[t] = None
           /\ Has(pt_table, pt_thr[t][1].packet.identity_hash)) =>
          LET packet == pt_thr[t][1].packet
              peer == pt_table'.peer[packet.identity_hash]
          IN  /\ peer.message = packet.message
              /\ peer.flags = packet.flags]_vars

\* The part of C11 that leaves out packets with an empty message.
C11_ReplacedUnlessEmpty ==
    [][\A t \in Threads :
          (/\ InUpdate(t)
           /\ pt_thr'[t] = None
           /\ Has(pt_table, pt_thr[t][1].packet.identity_hash)) =>
          LET packet == pt_thr[t][1].packet
              peer == pt_table'.peer[packet.identity_hash]
              old == pt_table.peer[packet.identity_hash]
          IN  /\ peer.flags = packet.flags
              /\ peer.message = IF packet.message = <<>> THEN old.message
                                ELSE packet.message]_vars

(***************************************************************************)
(* The registry's queries and the stale sweep                              *)
(***************************************************************************)
GetAllReturned(include_stale) ==
    /\ pt_out # None
    /\ pt_out[1].op = "get_all"
    /\ pt_out[1].arg = include_stale

\* The entries of the table whose age at time tnow is at most the window.
WithinWindow(tnow) ==
    {pt_table.peer[k] : k \in {h \in DOMAIN pt_table.peer :
        tnow - pt_table.peer[h].last_seen <= MaxAgeSeconds}}

OrderedByLastSeen(ps) ==
    \A i, j \in 1..Len(ps) : i < j => ps[i].last_seen >= ps[j].last_seen

ListsExactly(ps, entries) ==
    /\ {ps[i] : i \in 1..Len(ps)} = entries
    /\ Len(ps) = Cardinality(entries)

\* C12: get_all(include_stale=false) returns exactly the entries whose age
\* does not exceed the retention window, ordered by last_seen descending.
C12_GetAllWithinWindow ==
    GetAllReturned(FALSE) =>
        /\ ListsExactly(pt_out[1].ret, WithinWindow(pt_out[1].at))
        /\ OrderedByLastSeen(pt_out[1].ret)

\* What get_all(include_stale=false) returns: the entries younger than the
\* window, an entry whose age equals the window left out.
C12_GetAllYoungerThanWindow ==
    GetAllReturned(FALSE) =>
        /\ ListsExactly(pt_out[1].ret,
               {p \in WithinWindow(pt_out[1].at) :
                  pt_out[1].at - p.last_seen # MaxAgeSeconds})
        /\ OrderedByLastSeen(pt_out[1].ret)

\* get_all(include_stale=true) returns every entry, and get the entry of
\* its key, stale or not.
C12_StaleStillReturned ==
    /\ GetAllReturned(TRUE) =>
         /\ ListsExactly(pt_out[1].ret,
                {pt_table.peer[k] : k \in DOMAIN pt_table.peer})
         /\ OrderedByLastSeen(pt_out[1].ret)
    /\ (pt_out # None /\ pt_out[1].op = "get") =>
         pt_out[1].ret = IF pt_out[1].arg \in DOMAIN pt_table.peer
                         THEN Some(pt_table.peer[pt_out[1].arg]) ELSE None

\* get_all and get leave the map as it is.
C12_QueriesKeepMap ==
    [][(pt_out' # None /\ pt_out'[1].op \in {"get_all", "get"}) =>
          pt_table' = pt_table]_vars

\* The keys of the entries that are older than the window at time tnow.
OlderThanWindow(tnow) ==
    {k \in DOMAIN pt_table.peer :
       tnow - pt_table.peer[k].last_seen > MaxAgeSeconds}

RemoveStaleReturns(t) == InRemoveStale(t) /\ pt_thr'[t] = None

\* C13: remove_stale() deletes exactly the entries whose age, at the time
\* the call read, is greater than the retention window, keeps every other
\* entry as it was, and returns the number of entries it deleted; a second
\* call with the same time finds nothing to delete and returns 0.
C13_RemoveStaleExact ==
    [][\A t \in Threads : RemoveStaleReturns(t) =>
          LET tnow == pt_thr[t][1].now
              kept == DOMAIN pt_table.peer \ OlderThanWindow(tnow)
          IN  /\ DOMAIN pt_table'.peer = kept
              /\ \A k \in kept : pt_table'.peer[k] = pt_table.peer[k]
              /\ {pt_table'.keys[i] : i \in 1..Len(pt_table'.keys)} = kept
              /\ Len(pt_table'.keys) = Cardinality(kept)
              /\ pt_out'[1].op = "remove_stale"
              /\ pt_out'[1].ret = Cardinality(OlderThanWindow(tnow))
              /\ PeerTableRemoveStale(pt_table', tnow) = pt_table'
              /\ RemoveStaleCount(pt_table', tnow) = 0]_vars

\* remove_stale() has deleted one entry and kept another, one of age equal
\* to the window.
C13_Witness ==
    /\ pt_out # None
    /\ pt_out[1].op = "remove_stale"
    /\ pt_out[1].ret = 1
    /\ \E k \in DOMAIN pt_table.peer :
         pt_out[1].at - pt_table.peer[k].last_seen = MaxAgeSeconds

ClearReturns == pt_out' # None /\ pt_out'[1].op = "clear"

\* C14: an entry leaves the registry only in a clear(), or in a
\* remove_stale() that returns when the entry's age exceeds the retention
\* window; update, get and get_all delete nothing.
C14_OnlyClearOrSweep ==
    [][\A k \in DOMAIN pt_table.peer \ DOMAIN pt_table'.peer :
          \/ ClearReturns
          \/ /\ \E t \in Threads : RemoveStaleReturns(t)
             /\ pt_clock - pt_table.peer[k].last_seen > MaxAgeSeconds]_vars

\* remove_stale() has returned, has deleted an entry, and has kept one that
\* was seen a second ago.
C14_Witness ==
    /\ pt_out # None
    /\ pt_out[1].op = "remove_stale"
    /\ pt_out[1].ret = 1
    /\ \E k \in DOMAIN pt_table.peer :
         pt_clock - pt_table.peer[k].last_seen = 1

\* The Listener's frame handling deletes nothing from either registry: an
\* entry leaves one only in BeaconScheduler.clear_peers.
C14_ListenerKeepsEntries ==
    [][\A r \in TableRefs :
          \/ DOMAIN tables[r].peer \subseteq DOMAIN tables'[r].peer
          \/ /\ r = SchedTable
             /\ tables'[r] = EmptyTable
             /\ UNCHANGED lsnVars]_vars

(***************************************************************************)
(* The adaptive sub-step, read off the modem commands of a pass: LEVELS,   *)
(* then STATUS, then at most one MODE.                                     *)
(***************************************************************************)
EventsOf(log, kind) == {i \in DOMAIN log : log[i].kind = kind}

\* The pass has read a signal level.
HasReading(log) ==
    \E i \in EventsOf(log, "LEVELS") : log[i].what # None

LevelsAt(log) == CHOOSE i \in EventsOf(log, "LEVELS") : TRUE
EstimatedSnr(log) == log[LevelsAt(log)].what[1] + 35
\* the mode the modem is in when the sub-step asks for it, and whether the
\* modem answers
ModemModeAsked(log) == log[LevelsAt(log) + 1].what
ModeAnswered(log) == log[LevelsAt(log) + 1].ok

\* The MODE commands of the sub-step.
AdaptiveModeAt(log) ==
    {i \in EventsOf(log, "MODE") : i > LevelsAt(log)}
AdaptiveModes(log) == {log[i].what : i \in AdaptiveModeAt(log)}

RuleModes(log, answered) ==
    (IF /\ answered
        /\ EstimatedSnr(log) < s_cfg.snr_threshold_low
        /\ ModemModeAsked(log) # DATAC3 THEN {DATAC3} ELSE {})
    \cup (IF /\ answered
             /\ EstimatedSnr(log) > s_cfg.snr_threshold_high
             /\ ModemModeAsked(log) # DATAC1 THEN {DATAC1} ELSE {})

\* C15 as stated: with a signal level read, MODE DATAC3 is issued iff
\* SNR < low and the modem is not in DATAC3, MODE DATAC1 iff SNR > high and
\* the modem is not in DATAC1, and no other MODE.
C15_AdaptiveRule ==
    HasReading(s_log) =>
        /\ AdaptiveModes(s_log) = RuleModes(s_log, TRUE)
        /\ Cardinality(AdaptiveModeAt(s_log)) <= 1

\* The pass after a switch of the adaptive sub-step that the modem
\* accepted, with the same reading and the mode query answered.
SecondIdenticalReading ==
    /\ HasReading(s_log)
    /\ \E i \in AdaptiveModeAt(s_log) : s_log[i].ok
    /\ s_wake' # s_wake
    /\ HasReading(s_log')
    /\ EstimatedSnr(s_log') = EstimatedSnr(s_log)
    /\ ModeAnswered(s_log')

\* C15, amended: the rule holds when the modem answers the mode query, no
\* MODE is issued when it does not, and the pass after an accepted switch
\* issues no MODE on the same reading.
C15_AdaptiveRuleWhenModeKnown ==
    /\ [](HasReading(s_log) =>
            /\ AdaptiveModes(s_log) = RuleModes(s_log, ModeAnswered(s_log))
            /\ Cardinality(AdaptiveModeAt(s_log)) <= 1)
    /\ [][SecondIdenticalReading => AdaptiveModeAt(s_log') = {}]_vars

\* A pass that read a low level with the modem already in DATAC3, where an
\* earlier pass had put it, and issued no MODE.
C15_Witness ==
    /\ HasReading(s_log)
    /\ EstimatedSnr(s_log) < s_cfg.snr_threshold_low
    /\ ModeAnswered(s_log)
    /\ ModemModeAsked(s_log) = DATAC3
    /\ AdaptiveModeAt(s_log) = {}

(***************************************************************************)
(* start(), stop() and force_beacon()                                      *)
(***************************************************************************)
\* A step in which a call of op returns.
Returns(op) ==
    /\ s_calls' # s_calls \/ s_stop' # s_stop
    /\ s_ret' # None
    /\ s_ret'[1].op = op
HasReturned(op) == s_ret # None /\ s_ret[1].op = op
NoThread(pc) == pc \in {"off", "exited"}
CommandsOf(log) == {i \in DOMAIN log : log[i].kind # "beacon_tx"}
FailedIn(log) == {i \in DOMAIN log : ~log[i].ok}

\* C16: a start() on a scheduler that is not running returns failure when
\* PING or the initial MODE <arq_mode> fails, and then the scheduler is not
\* running, has no loop thread and its Listener is not started; a failed
\* PING is the only command of the call.  When both succeed it returns
\* success, the scheduler runs, its loop thread and the Listener's thread
\* exist.  A start() on a running scheduler returns success, issues no modem
\* command and leaves the threads as they are.
C16_StartFailsFast ==
    [][Returns("start") =>
        IF s_running
        THEN /\ s_ret'[1].ret = TRUE
             /\ s_log' = <<>>
             /\ UNCHANGED <<s_running, s_pc, s_wake, s_listener, m_mode,
                            s_current_mode, loopVars>>
        ELSE /\ s_ret'[1].ret = (FailedIn(s_log') = {})
             /\ s_log'[1].kind = "PING"
             /\ ~s_log'[1].ok => Len(s_log') = 1
             /\ s_log'[1].ok =>
                  /\ Len(s_log') = 2
                  /\ s_log'[2].kind = "MODE"
                  /\ s_log'[2].what = s_cfg.arq_mode
             /\ IF s_ret'[1].ret
                THEN /\ s_running'
                     /\ s_pc' = "wait"
                     /\ s_listener' = "started"
                     /\ l_pc' = "connect"
                ELSE /\ ~s_running'
                     /\ NoThread(s_pc') /\ s_pc' = s_pc
                     /\ s_listener' = "stopped"
                     /\ NoThread(l_pc') /\ l_pc' = l_pc]_vars

\* start() has returned failure because the initial MODE command failed.
C16_Witness ==
    /\ HasReturned("start")
    /\ s_ret[1].ret = FALSE
    /\ Len(s_log) = 2
    /\ ~s_log[2].ok
    /\ ~s_running

Stopping == s_stop # None
BothExited == s_pc = "exited" /\ l_pc = "exited"

\* C17: stop() on a running scheduler clears the running flags of both
\* loops, and from whatever state the two threads are in they exit; the
\* last step of stop() is one MODE <arq_mode> command, and stop() returns
\* whether the modem accepts it or not.  stop() on a scheduler that is not
\* running issues no command and changes nothing.
C17_StopHaltsBothLoops ==
    /\ [][/\ (~Stopping /\ Stopping') =>
               s_running /\ ~s_running' /\ s_listener' = "stopped"
          /\ (Stopping /\ ~Stopping') =>
               /\ Returns("stop")
               /\ Len(s_log') = 1
               /\ s_log'[1].kind = "MODE"
               /\ s_log'[1].what = s_cfg.arq_mode
               /\ UNCHANGED <<s_running, s_listener, s_pc, l_pc>>
          /\ (Returns("stop") /\ ~Stopping) =>
               /\ ~s_running
               /\ s_log' = <<>>
               /\ UNCHANGED <<s_running, s_listener, s_pc, s_wake, l_pc,
                              m_mode, m_txwin, s_current_mode, s_stop>>]_vars
    /\ Stopping ~> BothExited

\* stop() is waiting in join with the scheduler thread in the sleep before
\* the transmission and the listener thread in its backoff wait.
C17_Witness ==
    /\ Stopping
    /\ s_pc = "tx_delay"
    /\ l_pc = "backoff"

\* stop() has returned although the modem refused the MODE command.
C17_StopReturnsOnRefusal ==
    /\ HasReturned("stop")
    /\ s_log # <<>>
    /\ ~s_log[1].ok

\* A pass of the scheduler loop that takes the scheduler to BEACON.
WindowEntry == s_current_mode # BEACON /\ s_current_mode' = BEACON

\* C18: with tx_beacon false no step sends a frame; force_beacon() returns
\* False and issues no modem command at all; a pass that enters the beacon
\* window sets the modem to the beacon mode and goes on polling, with no
\* sleep of beacon_tx_delay_sec, no STATUS query and no transmission.
C18_NoTransmitWhenDisabled ==
    [][~s_cfg.tx_beacon =>
        /\ EventsOf(s_log', "FRAME") = {}
        /\ s_win'.frames = 0
        /\ s_pc' # "tx_delay"
        /\ Returns("force_beacon") =>
              /\ s_ret'[1].ret = FALSE
              /\ s_log' = <<>>
              /\ UNCHANGED <<m_mode, m_txwin, s_current_mode, s_pc, s_wake,
                             s_win>>
        /\ WindowEntry =>
              /\ m_mode' = s_cfg.beacon_mode
              /\ s_pc' = "wait"
              /\ s_wake' = s_clock + 1
              /\ EventsOf(s_log', "STATUS") = {}
              /\ EventsOf(s_log', "beacon_tx") = {}]_vars

\* With tx_beacon false the scheduler has entered the window and a
\* force_beacon() has returned since.
C18_Witness ==
    /\ ~s_cfg.tx_beacon
    /\ s_current_mode = BEACON
    /\ m_mode = s_cfg.beacon_mode
    /\ HasReturned("force_beacon")

\* The MODE commands of a call, and the call has switched the modem to the
\* beacon mode.
ModesOf(log) == EventsOf(log, "MODE")
SwitchedToBeacon(log) ==
    \E i \in ModesOf(log) : log[i].what = s_cfg.beacon_mode /\ log[i].ok
ModesAccepted(log) == \A i \in ModesOf(log) : log[i].ok
StatusAnswered(log) == \A i \in EventsOf(log, "STATUS") : log[i].ok

\* C19: when a force_beacon() has switched the modem to the beacon mode and
\* the modem accepts every MODE command of the call, the modem is on return
\* in the mode it was in before the call, whether or not the mode query was
\* answered and the frame was sent.
C19_ForceBeaconRestores ==
    [][(/\ Returns("force_beacon")
        /\ SwitchedToBeacon(s_log')
        /\ ModesAccepted(s_log')) => m_mode' = m_mode]_vars

\* The same with the mode query answered.
C19_RestoresWhenModeKnown ==
    [][(/\ Returns("force_beacon")
        /\ SwitchedToBeacon(s_log')
        /\ ModesAccepted(s_log')
        /\ StatusAnswered(s_log')) =>
            /\ m_mode' = m_mode
            /\ s_ret'[1].ret = TRUE
            /\ Len(s_log') >= 3
            /\ s_log'[Len(s_log')].kind = "MODE"
            /\ s_log'[Len(s_log')].what = m_mode]_vars

\* A force_beacon() whose mode query was not answered returns True with no
\* MODE command after the one to the beacon mode.
C19_NoRestoreWhenModeUnknown ==
    [][(/\ Returns("force_beacon")
        /\ SwitchedToBeacon(s_log')
        /\ ~StatusAnswered(s_log')) =>
            /\ s_ret'[1].ret = TRUE
            /\ Cardinality(ModesOf(s_log')) = 1
            /\ m_mode' = s_cfg.beacon_mode]_vars

\* force_beacon() has returned True from a modem that was in a data mode and
\* is left in the beacon mode.
C19_LeftInBeaconMode ==
    /\ HasReturned("force_beacon")
    /\ s_ret[1].ret = TRUE
    /\ s_ret[1].was # s_cfg.beacon_mode
    /\ m_mode = s_cfg.beacon_mode
    /\ ModesAccepted(s_log)

\* The waits of the listener loop, counted from its start or from its last
\* successful connect.
BackoffWaits == <<1, 2, 4, 8, 16, 30, 30>>
BackoffWait(k) == IF k <= Len(BackoffWaits) THEN BackoffWaits[k] ELSE 30
Listening == s_listener = "started"

C20_WaitAfterSession ==
    /\ Listening
    /\ l_pc = "backoff"
    /\ l_fails = 1
    /\ l_wake = now + 1
    /\ now >= ListenerT0 + 7

\* C21: no exception of a notification callback ends the scheduler thread:
\* after a callback has raised, the thread is still in its loop.
C21_CallbacksIsolated == s_pc # "raised"

\* With the thread ended by on_mode_change at the window entry, the
\* scheduler is still marked running and recorded in BEACON after the end
\* of the window.
C21_StuckInBeacon ==
    /\ s_pc = "raised"
    /\ s_running
    /\ s_current_mode = BEACON
    /\ ~InBeaconWindow(s_cfg, s_clock)

\* C22: at no time are two threads inside _scheduler_loop, whatever the
\* sequence of start() and stop() calls.
C22_OneSchedulerLoop == ~(Alive(s_pc) /\ s_old # None /\ Alive(s_old[1].pc))

\* After a restart that followed a join timeout, both scheduler threads
\* have passed the loop test and made a pass in the same second.
C22_BothLoopsPoll ==
    /\ s_running
    /\ s_old # None
    /\ s_pc = "wait" /\ s_old[1].pc = "wait"
    /\ s_wake = s_clock + 1 /\ s_old[1].wake = s_clock + 1
    /\ s_clock > s_cfg.beacon_tx_delay_sec + RunClock(23, 59, 59) + 1

\* A scheduled window start: second 0 of a minute of the by-minute list, or
\* of the target minute of an hour of the by-hour list.
IsWindowStart(cfg, t) ==
    /\ Second(t) = 0
    /\ IF cfg.beacon_minutes # <<>>
       THEN InList(Minute(t), cfg.beacon_minutes)
       ELSE InList(Hour(t), cfg.beacon_hours_utc)
            /\ Minute(t) = cfg.beacon_minute

\* n is the first scheduled window start that is not before t.
IsNextWindow(cfg, t, n) ==
    /\ IsWindowStart(cfg, n)
    /\ n >= t
    /\ \A k \in 1..1440 :
          LET u == t - Second(t) + 60 * k
          IN  u < n => ~IsWindowStart(cfg, u)

Ascending(l) == \A i, j \in DOMAIN l : i < j => l[i] < l[j]

\* C23: the next window get_status() reports is a scheduled window start,
\* is not earlier than the current time, and no scheduled window start lies
\* strictly between the current time and it.
C23_NextWindow ==
    HasReturned("get_status") =>
        IsNextWindow(s_cfg, s_clock, s_ret[1].ret.next_beacon_utc)

\* The same for schedule lists in ascending order, the by-minute strategy
\* taken before 23:00 only.
C23_NextWindowAscending ==
    (/\ HasReturned("get_status")
     /\ Ascending(s_cfg.beacon_minutes)
     /\ Ascending(s_cfg.beacon_hours_utc)
     /\ s_cfg.beacon_minutes # <<>> => Hour(s_clock) < 23) =>
        IsNextWindow(s_cfg, s_clock, s_ret[1].ret.next_beacon_utc)

\* At 23:59:59 the by-minute strategy reports 00:00 of the day that is
\* ending.
C23_NextWindowInThePast ==
    /\ HasReturned("get_status")
    /\ Hour(s_clock) = 23
    /\ s_ret[1].ret.next_beacon_utc < s_clock

\* The events of the log that switch the modem to the beacon mode, open a
\* transmit window or send a frame.
BeaconEvents(log) ==
    {i \in DOMAIN log :
        \/ log[i].kind \in {"TX WINDOW", "FRAME"}
        \/ log[i].kind = "MODE" /\ log[i].what = s_cfg.beacon_mode}

\* The time matches the schedule and lies within beacon_duration_sec.
ScheduleMatches(cfg, t) == InBeaconWindow([cfg EXCEPT !.auto_switch = TRUE], t)

\* C24: with auto_switch false the recorded mode is ARQ in every state and
\* no pass of the loop issues MODE <beacon_mode>, TX WINDOW or a frame; in
\* every configuration the recorded mode is ARQ or BEACON.
C24_ListenOnly ==
    /\ s_current_mode \in {ARQ, BEACON}
    /\ ~s_cfg.auto_switch =>
          /\ s_current_mode = ARQ
          /\ BeaconEvents(s_log) = {}
          /\ s_pc # "tx_delay"

\* With auto_switch false the loop has polled at a time of the schedule.
C24_Witness ==
    /\ ~s_cfg.auto_switch
    /\ s_pc = "wait"
    /\ s_poll # None
    /\ ScheduleMatches(s_cfg, s_poll[1].time)
    /\ s_wake = s_poll[1].time + 1

\* C25: a step that changes current_mode is a pass of the scheduler loop,
\* which records BEACON inside the window and ARQ outside; start(), stop(),
\* force_beacon() and get_status() leave it unchanged.
C25_SingleWriter ==
    [][s_current_mode' # s_current_mode =>
        /\ s_pc = "wait"
        /\ s_calls' = s_calls
        /\ s_stop' = s_stop
        /\ s_poll' = Some([time |-> s_clock,
                           in_window |-> (s_current_mode' = BEACON)])
        /\ UNCHANGED <<tables, api_out>>]_vars

\* get_status() has returned while the recorded mode is BEACON.
C25_Witness ==
    /\ s_current_mode = BEACON
    /\ HasReturned("get_status")
    /\ s_ret[1].ret.current_mode = BEACON

\* The steps of the Listener, get_peers() and clear_peers() leave
\* current_mode unchanged.
C25_ListenerLeavesMode == [][s_current_mode' = s_current_mode]_vars

\* The values of a Python list.
ValuesOf(l) == {l[i] : i \in DOMAIN l}

\* The time t matches the active strategy of the schedule: the by-minute
\* set if there is one, the by-hour set and the target minute otherwise.
MatchesStrategy(cfg, t) ==
    IF cfg.beacon_minutes # <<>>
    THEN Minute(t) \in ValuesOf(cfg.beacon_minutes)
    ELSE Hour(t) \in ValuesOf(cfg.beacon_hours_utc)
            /\ Minute(t) = cfg.beacon_minute

TxCommands(log) ==
    {i \in DOMAIN log : log[i].kind \in {"TX WINDOW", "TX ENABLE", "TX DISABLE"}}

\* The accepted MODE <beacon_mode> commands in a log.
BeaconModeSet(log) ==
    {i \in ModesOf(log) : log[i].what = s_cfg.beacon_mode /\ log[i].ok}

\* C27: the pass that records BEACON has had MODE <beacon_mode> accepted
\* and, in hybrid operating mode, has issued before it one TX WINDOW, of
\* beacon_duration_sec seconds; in hf_only operating mode no pass issues
\* TX WINDOW, TX ENABLE or TX DISABLE.
C27_EntryCommands ==
    [][/\ WindowEntry =>
            /\ BeaconModeSet(s_log') # {}
            /\ s_cfg.operating_mode = "hybrid" =>
                  \E i \in TxCommands(s_log') :
                      /\ TxCommands(s_log') = {i}
                      /\ s_log'[i].kind = "TX WINDOW"
                      /\ s_log'[i].what = s_cfg.beacon_duration_sec
                      /\ \A j \in BeaconModeSet(s_log') : i < j
            /\ s_cfg.operating_mode # "hybrid" => TxCommands(s_log') = {}
       /\ s_cfg.operating_mode = "hf_only" => TxCommands(s_log') = {}]_vars

\* In hybrid operating mode the loop has recorded BEACON in a pass that
\* issued TX WINDOW.
C27_Witness ==
    /\ s_cfg.operating_mode = "hybrid"
    /\ s_current_mode = BEACON
    /\ s_poll # None /\ s_poll[1].in_window
    /\ TxCommands(s_log) # {}
    /\ BeaconModeSet(s_log) # {}

\* The frames, the transmit notifications and the channel queries answered
\* CLEAR in a log.
FramesOf(log) == EventsOf(log, "FRAME")
TxNotesOf(log) == EventsOf(log, "beacon_tx")
ClearQueries(log) ==
    {i \in EventsOf(log, "STATUS") : log[i].ok /\ log[i].what = "CLEAR"}

\* The step ends the listen-before-transmit delay of a window entry; the
\* events the step appends to the log are those past Len(s_log).
DelayEnds == s_pc = "tx_delay" /\ s_pc' = "wait"
ClearQueriedAfterDelay ==
    {j \in ClearQueries(s_log') : j > Len(s_log)}

\* C28: a step of the loop that sends a frame is the one that ends the
\* delay, is taken beacon_tx_delay_sec or more after the poll that switched
\* to the beacon mode, and has queried the channel in that step, after the
\* delay, with the answer CLEAR; a step that ends the delay without that
\* answer (BUSY, or no answer to STATUS) sends no frame and raises no
\* transmit notification, so that the window has none, and the recorded
\* mode stays BEACON, which only a poll outside the window leaves.
C28_ListenBeforeTransmit ==
    [][/\ (s_log' # s_log /\ FramesOf(s_log') # {}) =>
            /\ DelayEnds
            /\ s_poll # None
            /\ s_clock >= s_poll[1].time + s_cfg.beacon_tx_delay_sec
            /\ FramesOf(s_log) = {}
            /\ \A i \in FramesOf(s_log') :
                  \E j \in ClearQueriedAfterDelay : j < i
       /\ (s_win'.frames > s_win.frames \/ s_win'.notes > s_win.notes) =>
            /\ DelayEnds
            /\ ClearQueriedAfterDelay # {}
       /\ (DelayEnds /\ ClearQueriedAfterDelay = {}) =>
            /\ FramesOf(s_log') = {} /\ TxNotesOf(s_log') = {}
            /\ s_win'.id = WindowId(s_poll[1].time)
            /\ s_win'.frames = 0 /\ s_win'.notes = 0
            /\ s_current_mode' = BEACON
       /\ (s_current_mode = BEACON /\ s_current_mode' # BEACON) =>
            /\ s_poll' # None
            /\ s_poll'[1].time = s_clock
            /\ ~s_poll'[1].in_window]_vars

\* The frame of a window has been sent after a delay of
\* beacon_tx_delay_sec or more and a channel query answered CLEAR.
C28_Witness ==
    /\ s_current_mode = BEACON
    /\ s_pc = "wait"
    /\ s_poll # None /\ s_poll[1].in_window
    /\ s_clock >= s_poll[1].time + s_cfg.beacon_tx_delay_sec
    /\ \E i \in FramesOf(s_log) : \E j \in ClearQueries(s_log) : j < i
    /\ s_win.frames = 1

\* The channel was reported BUSY after the delay: the window has no frame
\* and the scheduler has polled again, inside the window, in BEACON.
C28_BusySkipped ==
    /\ s_current_mode = BEACON
    /\ s_cfg.tx_beacon
    /\ ~s_env.clear
    /\ s_poll # None /\ s_poll[1].in_window
    /\ s_win.id = WindowId(s_poll[1].time)
    /\ s_win.entries = 1 /\ s_win.frames = 0
    /\ s_poll[1].time > s_win.id + s_cfg.beacon_tx_delay_sec

\* The recorded mode is BEACON, the window has ended, the loop runs and the
\* modem answers every command; the run lasts long enough for the thread's
\* next pass.
StaleBeacon ==
    /\ s_current_mode = BEACON
    /\ ~ScheduleMatches(s_cfg, s_clock)
    /\ s_running /\ Alive(s_pc)
    /\ s_env.coop
    /\ IF s_pc = "tx_delay" THEN s_wake + MaxLate + 1 <= s_horizon
       ELSE s_wake <= s_horizon

\* The modem is in the configured data mode and the recorded mode is DATA.
BackInData == s_current_mode = ARQ /\ m_mode = s_cfg.arq_mode

\* C29: when the recorded mode is BEACON and the window has ended, the
\* running loop, with the modem answering every command, eventually has
\* the modem in arq_mode and the recorded mode ARQ; the pass that records
\* ARQ has had MODE <arq_mode> accepted and raises one mode-change
\* notification, (ARQ, arq_mode).
C29_BeaconToData ==
    /\ StaleBeacon ~> BackInData
    /\ [][(s_current_mode = BEACON /\ s_current_mode' = ARQ) =>
            /\ m_mode' = s_cfg.arq_mode
            /\ \E i \in EventsOf(s_log', "mode_change") :
                  /\ EventsOf(s_log', "mode_change") = {i}
                  /\ s_log'[i].what = <<ARQ, s_cfg.arq_mode>>
                  /\ \E j \in ModesOf(s_log') :
                        /\ j < i
                        /\ s_log'[j].what = s_cfg.arq_mode
                        /\ s_log'[j].ok]_vars

\* The loop has left BEACON at a poll after the window.
C29_Witness ==
    /\ BackInData
    /\ s_env.coop
    /\ s_poll # None /\ ~s_poll[1].in_window
    /\ s_win.entries = 1
    /\ s_win.id + s_cfg.beacon_duration_sec <= s_poll[1].time
    /\ EventsOf(s_log, "mode_change") # {}

\* The step completes the handling of the oldest frame not yet handled.
HandlingEnds == l_queue # <<>> /\ l_queue' # l_queue

\* C30: frames are handled one at a time in their order of arrival; the
\* handling of a frame that decodes to a beacon packet ends with one update
\* of the Listener's registry, which adds 1 to the rx_count of the packet's
\* peer (1 for a new peer) and leaves the other peers alone, and with one
\* notification, appended after those of the earlier frames, that carries
\* the decoded packet and the peer as the update left it; no other step of
\* the Listener notifies or updates.
C30_OneUpdateOneNote ==
    [][/\ HandlingEnds =>
            /\ l_queue' = Tail(l_queue)
            /\ IF Decode(Head(l_queue), U32Of(now)) = None
               THEN rx_notes' = rx_notes /\ tables' = tables
               ELSE /\ Len(rx_notes') = Len(rx_notes) + 1
                    /\ SubSeq(rx_notes', 1, Len(rx_notes)) = rx_notes
                    /\ LET n == rx_notes'[Len(rx_notes')]
                           id == n.packet.identity_hash
                           old == tables[l_peer_table]
                           new == tables'[l_peer_table]
                       IN  /\ Decode(Head(l_queue), n.packet.timestamp)
                                = Some(n.packet)
                           /\ Has(new, id)
                           /\ n.peer = new.peer[id]
                           /\ n.peer.rx_count = IF Has(old, id)
                                                THEN old.peer[id].rx_count + 1
                                                ELSE 1
                           /\ \A x \in DOMAIN new.peer \ {id} :
                                 Has(old, x) /\ new.peer[x] = old.peer[x]
       /\ rx_notes' # rx_notes => HandlingEnds
       /\ (tables'[l_peer_table] # tables[l_peer_table]
              /\ tables'[l_peer_table] # EmptyTable) => HandlingEnds]_vars

\* Two beacon frames of the same peer have been handled: two notifications,
\* the second with the peer's second reception.
C30_Witness ==
    /\ Len(rx_notes) = 2
    /\ l_queue = <<>>
    /\ l_hist = <<"recorded", "recorded">>
    /\ rx_notes[1].peer.rx_count = 1
    /\ rx_notes[2].peer.rx_count = 2

\* The run of bytes that a boundary marker at position n of s closes: what
\* lies between it and the boundary marker before it; None if there is no
\* marker before it.
RunClosedAt(s, n) ==
    LET before == {p \in 1..(n - 1) : s[p] = KISS_FEND}
    IN  IF s[n] # KISS_FEND \/ before = {} THEN None
        ELSE Some(SubSeq(s, (CHOOSE p \in before : \A q \in before : q <= p) + 1,
                         n - 1))

\* The unescaped content of the runs of 2 bytes or more with a command
\* byte of 0x00 that the markers among the first n bytes of s close, in
\* their order; with_empty tells whether a run whose unescaped content is
\* empty counts.
RECURSIVE FramesOfStream(_, _, _)
FramesOfStream(s, n, with_empty) ==
    IF n = 0 THEN <<>>
    ELSE LET earlier == FramesOfStream(s, n - 1, with_empty)
             run == RunClosedAt(s, n)
         IN  IF run = None THEN earlier
             ELSE IF Len(run[1]) < 2 THEN earlier
             ELSE IF run[1][1] # 0 THEN earlier
             ELSE IF ~with_empty /\ UnescapeKiss(run[1])[1] = <<>> THEN earlier
             ELSE Append(earlier, UnescapeKiss(run[1])[1])

\* C31 as stated: however the stream is split into chunks, the frames
\* handed on after k_read bytes are the unescaped contents of all the runs
\* of 2 bytes or more with command byte 0x00 closed so far.
C31_ChunkingIndependent ==
    k_frames = FramesOfStream(k_stream, k_read, TRUE)

\* C31 amended: they are the unescaped contents that are not empty; the
\* run 0x00 0xDB, whose content is empty, produces no frame.
C31_ChunkingIndependentNonEmpty ==
    k_frames = FramesOfStream(k_stream, k_read, FALSE)

\* A chunk has ended inside a run that qualifies and that the rest of the
\* stream closes: the command byte and the escape byte are in the buffer.
C31_Witness ==
    /\ l_in_frame
    /\ l_buffer = <<0, KISS_FESC>>
    /\ k_read = Len(k_stream) - 2
    /\ k_stream[Len(k_stream)] = KISS_FEND
    /\ k_stream[Len(k_stream) - 1] = KISS_TFEND

\* The whole stream has been read and its frame, unescaped, handed on.
C31_FrameHandedOn ==
    /\ k_read = Len(k_stream)
    /\ k_frames = <<(<<KISS_FEND>>)>>

\* The message region behind the timestamp holds the message its length
\* byte announces.
MessageFits(tail) == tail # <<>> /\ Len(tail) >= 1 + tail[1]

\* decode has returned for a frame whose flags byte has HAS_MESSAGE set and
\* whose message region is absent or cut short.
DecodedCutMessage ==
    /\ c_pc = "decoded" /\ c_mut = "foreign"
    /\ BitAnd(c_in.flags, FLAG_HAS_MESSAGE) # 0
    /\ ~MessageFits(c_in.tail)

\* C32: for a frame with valid magic and checksum whose flags byte has
\* HAS_MESSAGE set and whose message does not fit, decode returns a packet
\* with the identity and the timestamp of the frame and an empty message;
\* every packet decode returns has HAS_MESSAGE cleared in its flags.
C32_ToleratesMissingMessage ==
    /\ DecodedCutMessage =>
          /\ c_out # None
          /\ c_out[1].identity_hash = c_in.identity_hash
          /\ c_out[1].timestamp = c_in.timestamp
          /\ c_out[1].message = <<>>
    /\ (c_pc = "decoded" /\ c_out # None) =>
          BitAnd(c_out[1].flags, FLAG_HAS_MESSAGE) = 0

\* The same for the frames whose timestamp is not 0, and the identity, the
\* message and the flags for all of them.
C32_ToleratesUnlessZero ==
    /\ DecodedCutMessage =>
          /\ c_out # None
          /\ c_out[1].identity_hash = c_in.identity_hash
          /\ c_in.timestamp # U32Zero => c_out[1].timestamp = c_in.timestamp
          /\ c_out[1].message = <<>>
          /\ c_out[1].flags = c_in.flags - 1
    /\ (c_pc = "decoded" /\ c_out # None) =>
          BitAnd(c_out[1].flags, FLAG_HAS_MESSAGE) = 0

\* A frame with timestamp 0 and a cut message was decoded to a packet
\* that carries the time of the call.
C32_TimeOfCall ==
    /\ DecodedCutMessage
    /\ c_in.timestamp = U32Zero
    /\ c_out # None
    /\ c_out[1].timestamp = CodecNow

\* The step is a pass of the scheduler loop: only a pass moves the wake-up
\* time of a waiting thread.
PollStep == s_pc = "wait" /\ s_wake' # s_wake

\* The MODE commands of a log that the modem refused or left unanswered.
ModesFailed(log) == {i \in ModesOf(log) : ~log[i].ok}

\* C33: a pass of the loop whose MODE command at a window boundary fails
\* leaves the thread running and the recorded mode as it was, raises no
\* notification, sends no frame and waits one second for the next pass;
\* and every pass made while the condition of a transition holds (inside
\* the window with the recorded mode not BEACON, outside with BEACON)
\* issues the MODE command of that transition, the pass after a failure
\* included.
C33_FailedSwitchRetried ==
    [][PollStep =>
        /\ ModesFailed(s_log') # {} =>
              /\ s_current_mode' = s_current_mode
              /\ EventsOf(s_log', "mode_change") = {}
              /\ FramesOf(s_log') = {} /\ TxNotesOf(s_log') = {}
              /\ s_pc' = "wait"
              /\ s_wake' = s_clock + 1
              /\ s_running' = s_running
        /\ (s_poll'[1].in_window /\ s_current_mode # BEACON
              /\ s_cfg.operating_mode # "internet_only") =>
              \E i \in ModesOf(s_log') : s_log'[i].what = s_cfg.beacon_mode
        /\ (~s_poll'[1].in_window /\ s_current_mode = BEACON) =>
              \E i \in ModesOf(s_log') : s_log'[i].what = s_cfg.arq_mode]_vars

\* MODE <beacon_mode> has failed at a poll after the first second of the
\* window; the recorded mode is still ARQ.
C33_Witness ==
    /\ s_current_mode = ARQ
    /\ s_pc = "wait"
    /\ s_poll # None /\ s_poll[1].in_window
    /\ Second(s_poll[1].time) > 0
    /\ ModesFailed(s_log) # {}
    /\ s_wake = s_poll[1].time + 1

\* MODE <arq_mode> has failed after the window; the recorded mode is still
\* BEACON.
C33_ExitFailed ==
    /\ s_current_mode = BEACON
    /\ s_poll # None /\ ~s_poll[1].in_window
    /\ ModesFailed(s_log) # {}

\* The entries get_all(include_stale=False) omits and the entries
\* remove_stale() deletes, both called on table t at time tnow.
OmittedByGetAll(t, tnow) ==
    LET listed == GetAll(t, FALSE, tnow)
    IN  DOMAIN t.peer \ {listed[i].identity_hash : i \in DOMAIN listed}
DeletedByRemoveStale(t, tnow) ==
    DOMAIN t.peer \ DOMAIN PeerTableRemoveStale(t, tnow).peer

\* C34: at every instant the entries get_all(include_stale=False) omits
\* are the entries remove_stale() would delete.
C34_SameStaleness ==
    OmittedByGetAll(pt_table, pt_clock) = DeletedByRemoveStale(pt_table, pt_clock)

\* The two differ by the entries whose age is the retention window
\* exactly: get_all omits them, remove_stale keeps them.
C34_DifferAtWindowOnly ==
    /\ DeletedByRemoveStale(pt_table, pt_clock)
          \subseteq OmittedByGetAll(pt_table, pt_clock)
    /\ \A id \in OmittedByGetAll(pt_table, pt_clock)
                  \ DeletedByRemoveStale(pt_table, pt_clock) :
          pt_clock - pt_table.peer[id].last_seen = MaxAgeSeconds

\* remove_stale() has just returned 0 and left an entry that
\* get_all(include_stale=False) omits at the same instant.
C34_OmittedButKept ==
    /\ pt_out # None /\ pt_out[1].op = "remove_stale"
    /\ pt_out[1].at = pt_clock
    /\ pt_out[1].ret = 0
    /\ OmittedByGetAll(pt_table, pt_clock) # {}

\* stop() has returned for a scheduler that was running, and start() has
\* not been called since.
Stopped == ~s_running /\ s_stop = None /\ s_pc # "off"

\* The MODE and TX WINDOW commands and the frames that the step appends to
\* the log.
SentByStep ==
    {i \in DOMAIN s_log' :
        i > Len(s_log) /\ s_log'[i].kind \in {"MODE", "TX WINDOW", "FRAME"}}

\* C35: once stop() has returned, no step of the scheduler's threads
\* issues MODE or TX WINDOW or sends a frame, and the modem stays in the
\* mode stop() set.
C35_QuietAfterStop ==
    [][(Stopped /\ s_calls' = s_calls) =>
          /\ SentByStep = {}
          /\ m_mode' = m_mode]_vars

\* stop() has returned by the timeout of join and set the data mode; the
\* thread, back from time.sleep, has then sent the beacon frame.
C35_FrameAfterStop ==
    /\ Stopped
    /\ s_pc = "wait"
    /\ m_mode = s_cfg.arq_mode
    /\ s_current_mode = BEACON
    /\ Len(s_log) >= 3
    /\ s_log[1].kind = "MODE" /\ s_log[1].ok
    /\ s_log[2].kind = "STATUS"
    /\ s_log[3].kind = "FRAME" /\ s_log[3].ok

\* C36: whenever start() returns success the recorded mode is ARQ, the
\* mode start() has just set on the modem.
C36_RestartInData ==
    (HasReturned("start") /\ s_ret[1].ret) =>
        /\ s_current_mode = ARQ
        /\ m_mode = s_cfg.arq_mode

\* After stop() in BEACON and a successful start(), the new loop has
\* polled inside the window without switching the modem to the beacon
\* mode.
C36_WindowNotEntered ==
    /\ s_running /\ s_pc = "wait"
    /\ s_poll # None /\ s_poll[1].in_window
    /\ s_wake = s_poll[1].time + 1
    /\ s_current_mode = BEACON
    /\ m_mode = s_cfg.arq_mode
    /\ s_log = <<>>

\* C37: a pass of the loop that issues TX WINDOW issues one and switches
\* the modem to the beacon mode: it has MODE <beacon_mode> accepted and
\* records BEACON, which it does once in a window.
C37_TxWindowOnlyOnEntry ==
    [][(PollStep /\ TxCommands(s_log') # {}) =>
          /\ Cardinality(TxCommands(s_log')) = 1
          /\ BeaconModeSet(s_log') # {}
          /\ WindowEntry]_vars

\* MODE <beacon_mode> has failed in a pass that had TX WINDOW accepted:
\* the modem's transmit window is open, the modem is in the data mode and
\* the recorded mode is ARQ.
C37_OpenWithoutEntry ==
    /\ s_current_mode = ARQ
    /\ m_mode = s_cfg.arq_mode
    /\ m_txwin > s_clock
    /\ ModesFailed(s_log) # {}
    /\ \E i \in TxCommands(s_log) : s_log[i].ok

\* The modem's transmit window is the one TX WINDOW opened at the poll
\* that entered the beacon window.
OpenedAtEntry ==
    /\ s_cfg.operating_mode = "hybrid"
    /\ s_poll # None
    /\ m_txwin = s_poll[1].time + s_cfg.beacon_duration_sec

\* The step sends the frame of a window entry.
SendsScheduled ==
    DelayEnds /\ \E i \in FramesOf(s_log') : i > Len(s_log)

\* C38: the step that sends the frame of a window entry is taken at a time
\* inside the beacon window and, in hybrid mode, before the end of the
\* transmit window that the entry opened.
C38_SentInsideWindow ==
    [][SendsScheduled =>
          /\ InBeaconWindow(s_cfg, s_clock)
          /\ OpenedAtEntry => s_clock < m_txwin]_vars

\* A frame has been sent at a time outside the beacon window that the
\* thread had entered beacon_tx_delay_sec before.
C38_SentAfterWindow ==
    /\ s_pc = "wait" /\ s_current_mode = BEACON
    /\ s_poll # None /\ s_poll[1].in_window
    /\ s_clock = s_poll[1].time + s_cfg.beacon_tx_delay_sec
    /\ s_wake = s_clock + 1
    /\ FramesOf(s_log) # {}
    /\ ~InBeaconWindow(s_cfg, s_clock)

\* A frame has been sent in hybrid mode at the time the transmit window
\* of the entry ends.
C38_SentAfterTxWindow ==
    /\ s_pc = "wait" /\ s_current_mode = BEACON
    /\ OpenedAtEntry
    /\ s_clock = s_poll[1].time + s_cfg.beacon_tx_delay_sec
    /\ s_wake = s_clock + 1
    /\ FramesOf(s_log) # {}
    /\ s_clock = m_txwin

\* The step is the _transmit_beacon() of a force_beacon() call made with
\* the loop running, and hands a frame to the data channel.
ForceSends ==
    /\ s_force # None /\ s_force[1].pc = "settle" /\ s_force[1].running
    /\ s_force' # None /\ s_force'[1].pc = "sent"
    /\ \E i \in FramesOf(s_log') : i > Len(s_log)

\* The step is the return of a force_beacon() call that slept and was
\* made with the loop running.
ForceReturns == s_force # None /\ s_force[1].running /\ s_force' = None

\* C39: with the scheduler thread running between the steps of a
\* force_beacon() call, the frame of the call is sent with the modem in
\* the beacon mode, and when the call returns in a run whose modem
\* commands all succeed, the recorded mode BEACON goes with the modem in
\* the beacon mode and the recorded mode ARQ with the modem in another
\* mode.
C39_ForceInterleaves ==
    [][/\ ForceSends => m_mode = s_cfg.beacon_mode
       /\ (ForceReturns /\ s_env.coop) =>
             (s_current_mode' = BEACON <=> m_mode' = s_cfg.beacon_mode)]_vars

\* A force_beacon() call has sent its frame after the adaptive step of
\* the loop put the modem in DATAC3.
C39_SentAfterAdaptive ==
    /\ s_force # None /\ s_force[1].pc = "sent" /\ s_force[1].running
    /\ s_env.coop
    /\ s_log # <<>> /\ s_log[Len(s_log)].kind \in {"FRAME", "beacon_tx"}
    /\ s_current_mode = ARQ
    /\ m_mode = DATAC3

\* A force_beacon() call made in the beacon window has sent its frame
\* after the loop left the window and put the modem in the data mode.
C39_SentAfterExit ==
    /\ s_force # None /\ s_force[1].pc = "sent" /\ s_force[1].running
    /\ s_env.coop
    /\ s_log # <<>> /\ s_log[Len(s_log)].kind \in {"FRAME", "beacon_tx"}
    /\ s_force[1].was = s_cfg.beacon_mode
    /\ s_current_mode = ARQ
    /\ m_mode = s_cfg.arq_mode

\* A force_beacon() call has returned True, every modem command of the
\* run has succeeded, the loop has entered the beacon window during the
\* call, the recorded mode is BEACON and the modem is in the data mode the
\* call found it in.
C39_BeaconRecordedDataSet ==
    /\ HasReturned("force_beacon") /\ s_ret[1].ret
    /\ s_env.coop /\ s_running
    /\ s_ret[1].was = DATAC1
    /\ s_current_mode = BEACON
    /\ m_mode = DATAC1

\* A force_beacon() call has returned True, every modem command of the
\* run has succeeded, the loop has left the beacon window during the
\* call, the recorded mode is ARQ and the modem is in the beacon mode the
\* call found it in.
C39_ArqRecordedBeaconSet ==
    /\ HasReturned("force_beacon") /\ s_ret[1].ret
    /\ s_env.coop /\ s_running
    /\ s_ret[1].was = s_cfg.beacon_mode
    /\ s_current_mode = ARQ
    /\ m_mode = s_cfg.beacon_mode

\* The frames of a log that the data channel accepted.
FramesAccepted(log) == {i \in FramesOf(log) : log[i].ok}

\* force_beacon() has returned True and is the only call made so far: no
\* thread has been started, and the log holds what the call did.
ForcedAlone ==
    /\ HasReturned("force_beacon") /\ s_ret[1].ret
    /\ s_calls = 1

\* C40: a force_beacon() call that returns True has handed a frame to the
\* data channel: with no station identity, with an identity that is not
\* hexadecimal and with a send that fails, the call returns False.
C40_TrueOnlyIfSent == ForcedAlone => FramesAccepted(s_log) # {}

\* force_beacon() has returned True with no station identity configured
\* and has sent nothing.
C40_TrueWithoutIdentity ==
    /\ ForcedAlone
    /\ s_cfg.station_id = <<>>
    /\ FramesOf(s_log) = {}

\* force_beacon() has returned True with a station identity that is not
\* hexadecimal and has sent nothing.
C40_TrueWithInvalidIdentity ==
    /\ ForcedAlone
    /\ s_cfg.station_id = <<120, 121>>
    /\ FramesOf(s_log) = {}

\* force_beacon() has returned True after a send that failed.
C40_TrueAfterFailedSend ==
    /\ ForcedAlone
    /\ FramesOf(s_log) # {}
    /\ FramesAccepted(s_log) = {}

\* force_beacon() has returned True and has handed a frame to the data
\* channel.
C40_TrueAndSent == ForcedAlone /\ FramesAccepted(s_log) # {}

====
